---- MODULE Spec2Model ----
(***************************************************************************)
(* A model of the draw orchestrator, the coordinate transform and the      *)
(* scale/layout engine of MolDraw2D (Code/GraphMol/MolDraw2D/MolDraw2D.cpp)*)
(*                                                                         *)
(* The drawer's fields are the variables.  Every method is an operator     *)
(* from a drawer record to a drawer record, so that a method that calls    *)
(* other methods is the composition of their operators; an action applies  *)
(* one public (or protected) entry point to the current drawer.            *)
(* double values are modelled as exact rationals <<numerator, denominator>>*)
(* kept in lowest terms with a positive denominator; rounding is not       *)
(* modelled.                                                               *)
(***************************************************************************)
EXTENDS Integers, Sequences, FiniteSets, TLC

VARIABLES
  width_, height_, panel_width_, panel_height_,  \* canvas and panel size
  legend_height_,
  needs_scale_, scale_, fontScale,               \* fontScale: text_drawer_
  baseFontSize,                                  \* text_drawer_->baseFontSize()
  x_min_, y_min_, x_range_, y_range_,
  x_trans_, y_trans_, x_offset_, y_offset_,
  activeMolIdx_,
  at_cds_, atomic_nums_, atom_syms_, annotations_,
  pre_shapes_, post_shapes_, radicals_,
  d_numMetadataEntries,
  pc, batch,     \* position inside a running drawMolecules call, its locals
  call,          \* the last entry point applied: name, arguments, outcome
  prims,         \* canvas primitives emitted by the last entry point
  sdm            \* entry/exit scale state of the last setupDrawMolecule run

vars == <<width_, height_, panel_width_, panel_height_, legend_height_,
          needs_scale_, scale_, fontScale, baseFontSize, x_min_, y_min_,
          x_range_, y_range_, x_trans_, y_trans_, x_offset_, y_offset_,
          activeMolIdx_, at_cds_, atomic_nums_, atom_syms_, annotations_, pre_shapes_,
          post_shapes_, radicals_, d_numMetadataEntries, pc, batch, call,
          prims, sdm>>

----------------------------------------------------------------------------
(* Bounds of the model *)

\* largest number of render contexts the model lets the stack hold
MaxDepth == 2
\* most symbols the model lets one context's symbol array hold
MaxSymbols == 6

----------------------------------------------------------------------------
(* Exact rational arithmetic standing for double arithmetic *)

\* the element of a one-element set.  Operators that use an argument more
\* than once bind it first, as in The({f(x) : x \in {arg}}), so that it is
\* computed once.
The(S) == CHOOSE r \in S : TRUE

Abs(n) == IF n < 0 THEN -n ELSE n

RECURSIVE GCD(_, _)
GCD(a, b) ==
  The({IF y = 0 THEN x ELSE GCD(y, x % y) : x \in {a}, y \in {b}})

\* lowest terms; a zero denominator stands for the IEEE values a division by
\* zero gives: <<1, 0>> is +inf, <<-1, 0>> is -inf, <<0, 0>> is NaN
Norm(n, d) ==
  The({IF y = 0 THEN <<IF x > 0 THEN 1 ELSE IF x < 0 THEN -1 ELSE 0, 0>>
       ELSE IF y < 0 THEN <<(-x) \div g, (-y) \div g>>
       ELSE <<x \div g, y \div g>> :
         x \in {n}, y \in {d}, g \in {GCD(Abs(n), Abs(d))}})

R(n) == <<n, 1>>
Q(n, d) == Norm(n, d)
RAdd(a, b) ==
  The({Norm(x[1] * y[2] + y[1] * x[2], x[2] * y[2]) : x \in {a}, y \in {b}})
RSub(a, b) ==
  The({Norm(x[1] * y[2] - y[1] * x[2], x[2] * y[2]) : x \in {a}, y \in {b}})
RMul(a, b) ==
  The({Norm(x[1] * y[1], x[2] * y[2]) : x \in {a}, y \in {b}})
RDiv(a, b) ==
  The({Norm(x[1] * y[2], x[2] * y[1]) : x \in {a}, y \in {b}})
RNeg(a) == The({<<-x[1], x[2]>> : x \in {a}})
RLt(a, b) ==
  The({x[1] * y[2] < y[1] * x[2] : x \in {a}, y \in {b}})
RMin(a, b) == The({IF RLt(y, x) THEN y ELSE x : x \in {a}, y \in {b}})
RMax(a, b) == The({IF RLt(x, y) THEN y ELSE x : x \in {a}, y \in {b}})
RAbs(a) == The({<<Abs(x[1]), x[2]>> : x \in {a}})

\* numeric_limits<double>::max(): larger than every coordinate of the model
DBL_MAX == R(10000)

----------------------------------------------------------------------------
(* The drawer as a record *)

St ==
  [width_ |-> width_, height_ |-> height_,
   panel_width_ |-> panel_width_, panel_height_ |-> panel_height_,
   legend_height_ |-> legend_height_,
   needs_scale_ |-> needs_scale_, scale_ |-> scale_, fontScale |-> fontScale,
   baseFontSize |-> baseFontSize,
   x_min_ |-> x_min_, y_min_ |-> y_min_,
   x_range_ |-> x_range_, y_range_ |-> y_range_,
   x_trans_ |-> x_trans_, y_trans_ |-> y_trans_,
   x_offset_ |-> x_offset_, y_offset_ |-> y_offset_,
   activeMolIdx_ |-> activeMolIdx_,
   at_cds_ |-> at_cds_, atomic_nums_ |-> atomic_nums_,
   atom_syms_ |-> atom_syms_, annotations_ |-> annotations_,
   pre_shapes_ |-> pre_shapes_, post_shapes_ |-> post_shapes_,
   radicals_ |-> radicals_,
   d_numMetadataEntries |-> d_numMetadataEntries]

\* the base font size a text drawer starts with
DEFAULT_FONT_SCALE == Q(3, 5)

\* MolDraw2D::MolDraw2D
MolDraw2D(width, height, panelWidth, panelHeight) ==
  [width_ |-> width, height_ |-> height,
   panel_width_ |-> IF panelWidth > 0 THEN panelWidth ELSE width,
   panel_height_ |-> IF panelHeight > 0 THEN panelHeight ELSE height,
   legend_height_ |-> 0,
   needs_scale_ |-> TRUE, scale_ |-> R(1), fontScale |-> R(1),
   baseFontSize |-> DEFAULT_FONT_SCALE,
   x_min_ |-> R(0), y_min_ |-> R(0), x_range_ |-> R(0), y_range_ |-> R(0),
   x_trans_ |-> R(0), y_trans_ |-> R(0), x_offset_ |-> 0, y_offset_ |-> 0,
   activeMolIdx_ |-> -1,
   at_cds_ |-> <<>>, atomic_nums_ |-> <<>>, atom_syms_ |-> <<>>,
   annotations_ |-> <<>>, pre_shapes_ |-> <<>>, post_shapes_ |-> <<>>,
   radicals_ |-> <<>>,
   d_numMetadataEntries |-> 0]

\* the fields a method works on: the drawer, the error it has raised so far
\* ("ok" while none), the primitives it has emitted and the setupDrawMolecule
\* probe
NoProbe == [ran |-> FALSE]
Work(d) == d @@ [err |-> "ok", out |-> <<>>, probe |-> NoProbe]

Emit(w, p) == [w EXCEPT !.out = Append(@, p)]
Raise(w, e) == [w EXCEPT !.err = e]

\* the scale state setupDrawMolecule saves and restores
ScaleState(w) ==
  <<w.scale_, w.fontScale, w.x_trans_, w.y_trans_, w.x_offset_, w.y_offset_,
    w.x_min_, w.y_min_>>

\* the outer length of each per-molecule array
Depths(w) ==
  <<Len(w.at_cds_), Len(w.atomic_nums_), Len(w.atom_syms_),
    Len(w.annotations_), Len(w.pre_shapes_), Len(w.post_shapes_),
    Len(w.radicals_)>>

\* the per-molecule arrays themselves
Stack(w) ==
  <<w.at_cds_, w.atomic_nums_, w.atom_syms_, w.annotations_, w.pre_shapes_,
    w.post_shapes_, w.radicals_>>

panelWidth(w) == w.panel_width_
panelHeight(w) == w.panel_height_
drawHeight(w) == w.panel_height_ - w.legend_height_

----------------------------------------------------------------------------
(* Coordinate transform *)

\* MolDraw2D::getDrawCoords(const Point2D &): molecule coords -> device coords
getDrawCoords_flipThenSubtract(w, p) ==
  LET x == RMul(w.scale_, RAdd(RSub(p[1], w.x_min_), w.x_trans_))
      y == RMul(w.scale_, RAdd(RSub(p[2], w.y_min_), w.y_trans_))
  IN  <<RAdd(x, R(w.x_offset_)),
        RSub(RSub(R(panelHeight(w) - w.legend_height_), y), R(w.y_offset_))>>

getDrawCoords(w0, p0) ==
  The({(
      LET x0 == RMul(w.scale_, RAdd(RSub(p[1], w.x_min_), w.x_trans_))
          y0 == RMul(w.scale_, RAdd(RSub(p[2], w.y_min_), w.y_trans_))
          x1 == RAdd(x0, R(w.x_offset_))
          y1 == RSub(y0, R(w.y_offset_))
          y2 == RSub(R(panelHeight(w) - w.legend_height_), y1)
      IN  <<x1, y2>>) :
        w \in {w0}, p \in {p0}})

\* MolDraw2D::getAtomCoords(const pair<double,double> &): device -> molecule
getAtomCoords_offsetAdded(w, q) ==
  LET screen_x == RSub(q[1], R(w.x_offset_))
      screen_y == RAdd(q[2], R(w.y_offset_))
  IN  <<RSub(RAdd(RDiv(screen_x, w.scale_), w.x_min_), w.x_trans_),
        RSub(RSub(w.y_min_, w.y_trans_),
             RDiv(RAdd(RSub(screen_y, R(panelHeight(w))),
                       R(w.legend_height_)), w.scale_))>>

getAtomCoords(w0, q0) ==
  The({(
      LET screen_x == RSub(q[1], R(w.x_offset_))
          screen_y == RSub(q[2], R(w.y_offset_))
          x == RSub(RAdd(RDiv(screen_x, w.scale_), w.x_min_), w.x_trans_)
          y == RSub(RSub(w.y_min_, w.y_trans_),
                    RDiv(RAdd(RSub(screen_y, R(panelHeight(w))),
                              R(w.legend_height_)), w.scale_))
      IN  <<x, y>>) :
        w \in {w0}, q \in {q0}})

\* MolDraw2D::getAtomCoords(const pair<int,int> &): the ints become doubles
getAtomCoordsInt(w, q) == getAtomCoords(w, <<R(q[1]), R(q[2])>>)

----------------------------------------------------------------------------
(* Render-context stack *)

\* MolDraw2D::pushDrawDetails
pushDrawDetails_copyForward(w) ==
  [w EXCEPT !.at_cds_ = Append(@, IF @ = <<>> THEN <<>> ELSE @[Len(@)]),
            !.atomic_nums_ = Append(@, <<>>),
            !.atom_syms_ = Append(@, <<>>),
            !.annotations_ = Append(@, <<>>),
            !.pre_shapes_ = Append(@, <<>>),
            !.post_shapes_ = Append(@, <<>>),
            !.radicals_ = Append(@, <<>>),
            !.activeMolIdx_ = @ + 1]

pushDrawDetails(w) ==
  [w EXCEPT !.at_cds_ = Append(@, <<>>),
            !.atomic_nums_ = Append(@, <<>>),
            !.atom_syms_ = Append(@, <<>>),
            !.annotations_ = Append(@, <<>>),
            !.pre_shapes_ = Append(@, <<>>),
            !.post_shapes_ = Append(@, <<>>),
            !.radicals_ = Append(@, <<>>),
            !.activeMolIdx_ = @ + 1]

PopBack(s) == SubSeq(s, 1, Len(s) - 1)

\* MolDraw2D::popDrawDetails (only called on a non-empty stack)
popDrawDetails(w) ==
  [w EXCEPT !.activeMolIdx_ = @ - 1,
            !.annotations_ = PopBack(@),
            !.pre_shapes_ = PopBack(@),
            !.post_shapes_ = PopBack(@),
            !.atom_syms_ = PopBack(@),
            !.atomic_nums_ = PopBack(@),
            !.radicals_ = PopBack(@),
            !.at_cds_ = PopBack(@)]

\* the active index as a 1-based position in the arrays
Act(w) == w.activeMolIdx_ + 1

----------------------------------------------------------------------------
(* Molecules handed to the drawer.  conf: the prepared copy has a conformer;*)
(* atoms: position, resolved symbol ("" for an unlabelled carbon),          *)
(* orientation and atomic number; bonds: pairs of 0-based atom indices.     *)

Atom(x, y, sym, orient, num) ==
  [pos |-> <<R(x), R(y)>>, sym |-> sym, orient |-> orient, num |-> num]

Ethane ==
  [conf |-> TRUE,
   atoms |-> <<Atom(0, 0, "", "C", 6), Atom(2, 0, "", "C", 6)>>,
   bonds |-> <<<<0, 1>>>>]

Ethanol ==
  [conf |-> TRUE,
   atoms |-> <<Atom(-1, -1, "", "C", 6), Atom(1, 0, "", "C", 6),
               Atom(3, 2, "OH", "E", 8)>>,
   bonds |-> <<<<0, 1>>, <<1, 2>>>>]

NoCoords ==
  [conf |-> FALSE,
   atoms |-> <<Atom(0, 0, "", "C", 6), Atom(0, 0, "", "C", 6)>>,
   bonds |-> <<<<0, 1>>>>]

Mols == {Ethane, Ethanol, NoCoords}

\* an atom at a rational position
AtomAt(pos, sym, orient, num) ==
  [pos |-> pos, sym |-> sym, orient |-> orient, num |-> num]

\* a depiction with bond lengths below 1: C-OH with a bond of length 0.707
ShortBonds ==
  [conf |-> TRUE,
   atoms |-> <<AtomAt(<<R(0), R(0)>>, "", "C", 6),
               AtomAt(<<Q(1, 2), Q(1, 2)>>, "OH", "E", 8)>>,
   bonds |-> <<<<0, 1>>>>]

\* the same depiction without an atom label
ShortBare ==
  [conf |-> TRUE,
   atoms |-> <<AtomAt(<<R(0), R(0)>>, "", "C", 6),
               AtomAt(<<Q(1, 2), Q(1, 2)>>, "", "C", 6)>>,
   bonds |-> <<<<0, 1>>>>]

\* a null ROMol* in a molecule list
NullMol == [null |-> TRUE]
IsNull(m) == "null" \in DOMAIN m

NumAtoms(mol) == Len(mol.atoms)

\* highlight_atoms: a null pointer, or the atoms listed
NoHighlights == [given |-> FALSE, atoms |-> {}]
HighlightSets == {NoHighlights, [given |-> TRUE, atoms |-> {0, 1}]}

\* drawOptions(): the options the model varies, the others at their defaults
Options ==
  [atomRegions : BOOLEAN, includeMetadata : BOOLEAN,
   continuousHighlight : BOOLEAN]

\* MolDrawOptions defaults
padding == Q(1, 20)
highlightRadius == Q(3, 10)

----------------------------------------------------------------------------
(* Text metrics service (text_drawer_): the extremes of a label drawn at   *)
(* the origin, in device units; they grow linearly with the font size,     *)
(* which is the font scale times the base font size.                       *)

\* width and height of a character at font scale 1 and the default base
\* font size
CharWidth == Q(1, 2)
CharHeight == Q(3, 5)

\* the font size as a multiple of the size at font scale 1 and the default
\* base font size
fontSize(w) == RMul(w.fontScale, RDiv(w.baseFontSize, DEFAULT_FONT_SCALE))

textExtremes(label, orient, fs0) ==
  The({(
      LET hw == RMul(RMul(R(Len(label)), CharWidth), RMul(fs, Q(1, 2)))
          hh == RMul(CharHeight, RMul(fs, Q(1, 2)))
      IN  [x_min |-> IF orient = "E" THEN RNeg(RMul(CharWidth, RMul(fs, Q(1, 2))))
                     ELSE RNeg(hw),
           x_max |-> IF orient = "E"
                     THEN RSub(RMul(hw, R(2)), RMul(CharWidth, RMul(fs, Q(1, 2))))
                     ELSE hw,
           y_min |-> RNeg(hh), y_max |-> hh]) :
        fs \in {fs0}})

\* MolDraw2D::getStringExtremes: the label's box around cds, in molecule
\* coordinates
getStringExtremes(w, label, orient, cds) ==
  LET ordered(a, b) ==
        The({IF RLt(new_maxs[2], new_mins[2])
             THEN [x_min |-> new_mins[1], x_max |-> new_maxs[1],
                   y_min |-> new_maxs[2], y_max |-> new_mins[2]]
             ELSE [x_min |-> new_mins[1], x_max |-> new_maxs[1],
                   y_min |-> new_mins[2], y_max |-> new_maxs[2]] :
               new_mins \in {a}, new_maxs \in {b}})
      around(a, b) ==
        The({ordered(getAtomCoords(w, <<RAdd(e.x_min, draw_cds[1]),
                                        RAdd(e.y_min, draw_cds[2])>>),
                     getAtomCoords(w, <<RAdd(e.x_max, draw_cds[1]),
                                        RAdd(e.y_max, draw_cds[2])>>)) :
               e \in {a}, draw_cds \in {b}})
  IN  around(textExtremes(label, orient, fontSize(w)), getDrawCoords(w, cds))

----------------------------------------------------------------------------
(* Extraction passes *)

RECURSIVE MapAtoms(_, _, _)
\* the sequence of field f of the atoms from index i on
MapAtoms(atoms, f, i) ==
  IF i > Len(atoms) THEN <<>> ELSE <<atoms[i][f]>> \o MapAtoms(atoms, f, i + 1)

SymsOf(mol) ==
  [i \in 1..NumAtoms(mol) |-> <<mol.atoms[i].sym, mol.atoms[i].orient>>]

\* MolDraw2D::extractAtomCoords
extractAtomCoords(w, mol) ==
  IF w.err # "ok" THEN w
  ELSE IF \/ w.activeMolIdx_ < 0
          \/ ~(Len(w.at_cds_) > w.activeMolIdx_)
          \/ ~(Len(w.atomic_nums_) > w.activeMolIdx_)
          \/ ~mol.conf
       THEN Raise(w, "precondition")
       ELSE [w EXCEPT !.at_cds_[Act(w)] = MapAtoms(mol.atoms, "pos", 1)]

\* MolDraw2D::extractAtomSymbols: atomic_nums_ is cleared, atom_syms_ is
\* appended to
extractAtomSymbols(w, mol) ==
  IF w.err # "ok" THEN w
  ELSE IF \/ w.activeMolIdx_ < 0
          \/ ~(Len(w.atom_syms_) > w.activeMolIdx_)
          \/ ~(Len(w.atomic_nums_) > w.activeMolIdx_)
       THEN Raise(w, "precondition")
       ELSE [w EXCEPT !.atomic_nums_[Act(w)] = MapAtoms(mol.atoms, "num", 1),
                      !.atom_syms_[Act(w)] = @ \o SymsOf(mol)]

----------------------------------------------------------------------------
(* Scale/layout engine *)

\* a bounding box being grown: mins live in the drawer, maxes are locals
Grow(w0, xmax0, ymax0, bx0) ==
  The({(
      [w |-> [w EXCEPT !.x_min_ = RMin(@, bx.x_min), !.y_min_ = RMin(@, bx.y_min)],
       x_max |-> RMax(xmax, bx.x_max), y_max |-> RMax(ymax, bx.y_max)]) :
        w \in {w0}, xmax \in {xmax0}, ymax \in {ymax0}, bx \in {bx0}})

\* sqrt(2.0), to two decimals
root_2 == Q(141, 100)

\* MolDraw2D::calcLabelEllipse (the caller has an active context)
calcLabelEllipse(w, atom_idx) ==
  LET centre == w.at_cds_[Act(w)][atom_idx + 1]
      sym == w.atom_syms_[Act(w)][atom_idx + 1]
      around(e) ==
        [centre |-> <<RMul(Q(1, 2), RAdd(e.x_max, e.x_min)),
                      RMul(Q(1, 2), RAdd(e.y_max, e.y_min))>>,
         xradius |-> RMax(highlightRadius,
                          RMul(RMul(root_2, Q(1, 2)), RSub(e.x_max, e.x_min))),
         yradius |-> RMax(highlightRadius,
                          RMul(RMul(root_2, Q(1, 2)), RSub(e.y_max, e.y_min)))]
  IN  IF sym[1] = ""
      THEN [centre |-> centre, xradius |-> highlightRadius,
            yradius |-> highlightRadius]
      ELSE around(getStringExtremes(w, sym[1], sym[2], centre))

RECURSIVE labelLoop(_, _, _)
\* the loop of adjustScaleForAtomLabels from atom i (0-based) on
labelLoop(g0, hl, i) ==
  The({(
      LET syms == g.w.atom_syms_[Act(g.w)]
          withLabel(sym) ==
            IF sym[1] # ""
            THEN Grow(g.w, g.x_max, g.y_max,
                      getStringExtremes(g.w, sym[1], sym[2],
                                        g.w.at_cds_[Act(g.w)][i + 1]))
            ELSE g
          withEllipse(g1, a) ==
            The({Grow(g1.w, g1.x_max, g1.y_max,
                      [x_min |-> RSub(el.centre[1], el.xradius),
                       x_max |-> RAdd(el.centre[1], el.xradius),
                       y_min |-> RSub(el.centre[2], el.yradius),
                       y_max |-> RAdd(el.centre[2], el.yradius)]) : el \in {a}})
          withHighlight(a) ==
            The({IF hl.given /\ i \in hl.atoms
                 THEN withEllipse(g1, calcLabelEllipse(g1.w, i))
                 ELSE g1 : g1 \in {a}})
      IN  IF i >= Len(syms) THEN g
          ELSE labelLoop(withHighlight(withLabel(syms[i + 1])), hl, i + 1)) :
        g \in {g0}})

\* the tail shared by the adjustScaleFor... methods
SetRanges(g0) ==
  The({(
      [g.w EXCEPT !.x_range_ = RMax(RSub(g.x_max, g.w.x_min_), @),
                  !.y_range_ = RMax(RSub(g.y_max, g.w.y_min_), @)]) :
        g \in {g0}})

StartBox(w0) ==
  The({(
      [w |-> w, x_max |-> RAdd(w.x_min_, w.x_range_),
       y_max |-> RAdd(w.y_min_, w.y_range_)]) :
        w \in {w0}})

\* MolDraw2D::adjustScaleForAtomLabels
adjustScaleForAtomLabels(w, hl) == SetRanges(labelLoop(StartBox(w), hl, 0))

RECURSIVE radicalLoop(_, _)
radicalLoop(g0, i) ==
  The({(
      LET rads == g.w.radicals_[Act(g.w)]
      IN  IF i > Len(rads) THEN g
          ELSE LET r == rads[i]
               IN  radicalLoop(
                     Grow(g.w, g.x_max, g.y_max,
                          [x_min |-> RSub(r.trans[1], RMul(r.width, Q(1, 2))),
                           x_max |-> RAdd(r.trans[1], RMul(r.width, Q(1, 2))),
                           y_min |-> RSub(r.trans[2], RMul(r.height, Q(1, 2))),
                           y_max |-> RAdd(r.trans[2], RMul(r.height, Q(1, 2)))]),
                     i + 1)) :
        g \in {g0}})

\* MolDraw2D::adjustScaleForRadicals (the font scale follows scale_, so the
\* radical rectangles are not recomputed)
adjustScaleForRadicals(w) == SetRanges(radicalLoop(StartBox(w), 1))

RECURSIVE annotationLoop(_, _, _)
annotationLoop(g0, notes, i) ==
  The({(
      IF i > Len(notes) THEN g
      ELSE LET n == notes[i]
               x == n.trans[1]
               y == n.trans[2]
           IN  annotationLoop(
                 Grow(g.w, g.x_max, g.y_max,
                      [x_min |-> IF n.align = "END" THEN RSub(x, n.width)
                                 ELSE IF n.align = "START" THEN x
                                 ELSE RSub(x, RMul(n.width, Q(1, 2))),
                       x_max |-> IF n.align = "START" THEN RAdd(x, n.width)
                                 ELSE IF n.align = "END" THEN x
                                 ELSE RAdd(x, RMul(n.width, Q(1, 2))),
                       y_min |-> RSub(y, RMul(n.height, Q(1, 2))),
                       y_max |-> RAdd(y, RMul(n.height, Q(1, 2)))]),
                 notes, i + 1)) :
        g \in {g0}})

\* MolDraw2D::adjustScaleForAnnotation
adjustScaleForAnnotation(w, notes) ==
  SetRanges(annotationLoop(StartBox(w), notes, 1))

RECURSIVE pointsBox(_, _, _)
\* the atom/shape bounding-box loops at the head of calculateScale
pointsBox(g0, pts, i) ==
  The({(
      IF i > Len(pts) THEN g
      ELSE pointsBox(Grow(g.w, g.x_max, g.y_max,
                          [x_min |-> pts[i][1], x_max |-> pts[i][1],
                           y_min |-> pts[i][2], y_max |-> pts[i][2]]),
                     pts, i + 1)) :
        g \in {g0}})

RECURSIVE shapesBox(_, _, _)
shapesBox(g0, shapes, i) ==
  The({(
      IF i > Len(shapes) THEN g
      ELSE shapesBox(pointsBox(g, shapes[i].points, 1), shapes, i + 1)) :
        g \in {g0}})

FitScale(w0, width, height) ==
  The({(
      RMin(RDiv(R(width), w.x_range_), RDiv(R(height), w.y_range_))) :
        w \in {w0}})

\* MolDraw2D::centrePicture
centrePicture(w0, width, height) ==
  The({(
      LET y_mid == RAdd(w.y_min_, RMul(Q(1, 2), w.y_range_))
          x_mid == RAdd(w.x_min_, RMul(Q(1, 2), w.x_range_))
          mx0 == RMul(w.scale_, RSub(x_mid, w.x_min_))
          my0 == RMul(w.scale_, RSub(y_mid, w.y_min_))
          mx1 == RAdd(mx0, R(w.x_offset_))
          my1 == RSub(my0, R(w.y_offset_))
          my2 == RSub(R(height), my1)
          mx3 == RSub(mx1, R(w.x_offset_))
          my3 == RAdd(my2, R(w.y_offset_))
      IN  [w EXCEPT !.x_trans_ = RDiv(RSub(R(width \div 2), mx3), w.scale_),
                    !.y_trans_ = RDiv(RSub(my3, R(height \div 2)), w.scale_)]) :
        w \in {w0}})

RECURSIVE ISqrt(_, _, _)
\* the integer square root of n, sought between lo and hi
ISqrt(n0, lo0, hi0) ==
  The({(
      IF lo >= hi THEN lo
      ELSE LET mid == (lo + hi + 1) \div 2
           IN  IF mid * mid <= n THEN ISqrt(n, mid, hi) ELSE ISqrt(n, lo, mid - 1)) :
        n \in {n0}, lo \in {lo0}, hi \in {hi0}})

\* Point2D::length of the difference of two points, to three decimals
Length(p0, q0) ==
  The({(
      LET root(n) == Q(ISqrt(n, 0, IF n < 40000 THEN n ELSE 40000), 1000)
          of(sq) == root((sq[1] * 1000000) \div sq[2])
          square(dx, dy) == RAdd(RMul(dx, dx), RMul(dy, dy))
      IN  of(square(RSub(p[1], q[1]), RSub(p[2], q[2])))) :
        p \in {p0}, q \in {q0}})

RECURSIVE SumBondLengths(_, _)
\* the sum of the lengths of the bonds from the k-th on
SumBondLengths(mol, k) ==
  IF k > Len(mol.bonds) THEN R(0)
  ELSE RAdd(Length(mol.atoms[mol.bonds[k][1] + 1].pos,
                   mol.atoms[mol.bonds[k][2] + 1].pos),
            SumBondLengths(mol, k + 1))

\* the base font correction that ends both calculateScale overloads:
\* a mean bond length below 1 shrinks the base font size to three quarters
\* of what it is at the time of the call
baseFontCorrection(w0, sumLengths0, nBonds) ==
  The({(
      IF nBonds > 0 /\ RLt(RDiv(sumLengths, R(nBonds)), R(1))
      THEN [w EXCEPT !.baseFontSize = RMul(@, Q(3, 4))]
      ELSE w) :
        w \in {w0}, sumLengths \in {sumLengths0}})

\* one pass through the body of the while (scale_ > 1e-4) loop of
\* calculateScale, up to the new trial scale
scaleIter(w, width, height, hl) ==
  LET fontSet(a) == The({[v EXCEPT !.fontScale = v.scale_] : v \in {a}})
      annotated(a) ==
        The({IF w3.annotations_ # <<>> /\ w3.annotations_[Act(w3)] # <<>>
             THEN adjustScaleForAnnotation(w3, w3.annotations_[Act(w3)])
             ELSE w3 : w3 \in {a}})
      refit(a) ==
        The({[w4 EXCEPT !.scale_ = FitScale(w4, width, height)] : w4 \in {a}})
  IN  refit(annotated(adjustScaleForRadicals(
        adjustScaleForAtomLabels(fontSet(w), hl))))

scaleLoopBreaks_coarse(old_scale, w) ==
  RLt(RAbs(RSub(w.scale_, old_scale)), R(100))

\* the loop condition: scale_ > 1e-4
scaleLoopEntered(w) == RLt(Q(1, 10000), w.scale_)

\* the break test: fabs(scale_ - old_scale) < 0.1
scaleLoopBreaks(old_scale, w) ==
  RLt(RAbs(RSub(w.scale_, old_scale)), Q(1, 10))

RECURSIVE scaleLoop(_, _, _, _)
\* the while (scale_ > 1e-4) loop of calculateScale
scaleLoop(w, width, height, hl) ==
  LET again(old_scale, w5) ==
        IF scaleLoopBreaks(old_scale, w5) THEN w5
        ELSE scaleLoop(w5, width, height, hl)
  IN  IF ~scaleLoopEntered(w) THEN w
      ELSE again(w.scale_, scaleIter(w, width, height, hl))

\* calculateScale up to its loop: the bounding box of the atoms and shapes,
\* the degenerate spans and the first trial scale
calculateScaleHead(w, width, height) ==
  LET box ==
        shapesBox(
          shapesBox(
            pointsBox([w |-> [w EXCEPT !.x_min_ = DBL_MAX, !.y_min_ = DBL_MAX],
                       x_max |-> RNeg(DBL_MAX), y_max |-> RNeg(DBL_MAX)],
                      w.at_cds_[Act(w)], 1),
            w.pre_shapes_[Act(w)], 1),
          w.post_shapes_[Act(w)], 1)
      spans(v, xr, yr) ==
        [v EXCEPT
           !.x_range_ = IF RLt(xr, Q(1, 10000)) THEN R(2) ELSE xr,
           !.x_min_ = IF RLt(xr, Q(1, 10000)) THEN RSub(@, R(1)) ELSE @,
           !.y_range_ = IF RLt(yr, Q(1, 10000)) THEN R(2) ELSE yr,
           !.y_min_ = IF RLt(yr, Q(1, 10000)) THEN RSub(@, R(1)) ELSE @]
      boxSpans(g) ==
        spans(g.w, RSub(g.x_max, g.w.x_min_), RSub(g.y_max, g.w.y_min_))
      fit(v) == [v EXCEPT !.scale_ = FitScale(v, width, height)]
  IN  fit(boxSpans(box))

\* calculateScale after its loop: the padding, the final scale and
\* translation, the base font correction and the font scale
calculateScaleTail(w, width, height, mol) ==
  LET fit(a) ==
        The({[v EXCEPT !.scale_ = FitScale(v, width, height)] : v \in {a}})
      pad(a) ==
        The({[v EXCEPT
                !.x_min_ = RSub(@, RMul(padding, v.x_range_)),
                !.x_range_ = RMul(@, RAdd(R(1), RMul(R(2), padding))),
                !.y_min_ = RSub(@, RMul(padding, v.y_range_)),
                !.y_range_ = RMul(@, RAdd(R(1), RMul(R(2), padding)))] :
               v \in {a}})
      final(a) ==
        The({IF RLt(Q(1, 10000), v.x_range_) \/ RLt(Q(1, 10000), v.y_range_)
             THEN centrePicture(fit(v), width, height)
             ELSE [v EXCEPT !.scale_ = R(1), !.x_trans_ = R(0),
                            !.y_trans_ = R(0)] : v \in {a}})
      corrected(v) ==
        baseFontCorrection(v, SumBondLengths(mol, 1), Len(mol.bonds))
      fontSet(a) == The({[v EXCEPT !.fontScale = v.scale_] : v \in {a}})
  IN  fontSet(corrected(final(pad(w))))

\* MolDraw2D::calculateScale(int, int, const ROMol &, ...), with fixedScale
\* and fixedBondLength at their defaults (unset)
calculateScale(w, width, height, mol, hl) ==
  IF w.err # "ok" THEN w
  ELSE IF ~(width > 0) \/ ~(height > 0) \/ w.activeMolIdx_ < 0
  THEN Raise(w, "precondition")
  ELSE calculateScaleTail(
         scaleLoop(calculateScaleHead(w, width, height), width, height, hl),
         width, height, mol)

----------------------------------------------------------------------------
(* setupDrawMolecule *)

\* the part of setupDrawMolecule after the scale state has been saved and
\* reset, up to and including the restore
\* drawOptions().variableAtomRadius
variableAtomRadius == Q(4, 10)

RECURSIVE endPointLoop(_, _, _)
\* the loop of extractVariableBonds over the end points of the bond: each
\* adds an ellipse about its atom to the pre-draw shapes
endPointLoop(w, mol, k) ==
  IF k > Len(mol.endpts) THEN w
  ELSE IF mol.endpts[k] = 0 \/ mol.endpts[k] > NumAtoms(mol)
  THEN Raise(w, "value_error")
  ELSE endPointLoop(
         [w EXCEPT !.pre_shapes_[Act(w)] =
            Append(@, [shapeType |-> "Ellipse",
                       points |->
                         <<<<RAdd(w.at_cds_[Act(w)][mol.endpts[k]][1],
                                  variableAtomRadius),
                             RAdd(w.at_cds_[Act(w)][mol.endpts[k]][2],
                                  variableAtomRadius)>>,
                           <<RSub(w.at_cds_[Act(w)][mol.endpts[k]][1],
                                  variableAtomRadius),
                             RSub(w.at_cds_[Act(w)][mol.endpts[k]][2],
                                  variableAtomRadius)>>>>])],
         mol, k + 1)

RECURSIVE involvedBondLoop(_, _, _)
\* the loop of extractVariableBonds over the bonds between end points: each
\* adds a polyline to the pre-draw shapes
involvedBondLoop(w, mol, b) ==
  IF w.err # "ok" \/ b > Len(mol.bonds) THEN w
  ELSE involvedBondLoop(
         IF \A e \in {mol.bonds[b][1], mol.bonds[b][2]} :
              \E k \in DOMAIN mol.endpts : mol.endpts[k] = e + 1
         THEN [w EXCEPT !.pre_shapes_[Act(w)] =
                 Append(@, [shapeType |-> "Polyline",
                            points |->
                              <<w.at_cds_[Act(w)][mol.bonds[b][1] + 1],
                                w.at_cds_[Act(w)][mol.bonds[b][2] + 1]>>])]
         ELSE w,
         mol, b + 1)

\* MolDraw2D::extractVariableBonds; endpts is the _MolFileBondEndPts array
\* of the bond var_bond, when the molecule has such a bond
extractVariableBonds(w, mol) ==
  LET unstar(w2) ==
        IF w2.err = "ok" /\ mol.atoms[mol.bonds[mol.var_bond][1] + 1].num = 0
        THEN [w2 EXCEPT
                !.atom_syms_[Act(w2)][mol.bonds[mol.var_bond][1] + 1] =
                  <<"", "C">>]
        ELSE w2
  IN  IF w.err # "ok" THEN w
      ELSE IF \/ w.activeMolIdx_ < 0
              \/ ~(Len(w.pre_shapes_) > w.activeMolIdx_)
              \/ ~(Len(w.annotations_) > w.activeMolIdx_)
      THEN Raise(w, "precondition")
      ELSE IF "endpts" \notin DOMAIN mol THEN w
      ELSE unstar(involvedBondLoop(endPointLoop(w, mol, 1), mol, 1))

setupBody(w, mol) ==
  LET clearShapes(w2) ==
        IF w2.err = "ok" /\ w2.activeMolIdx_ >= 0
           /\ Len(w2.post_shapes_) > w2.activeMolIdx_
           /\ Len(w2.pre_shapes_) > w2.activeMolIdx_
        THEN [w2 EXCEPT !.post_shapes_[Act(w2)] = <<>>,
                        !.pre_shapes_[Act(w2)] = <<>>]
        ELSE w2
  IN  extractVariableBonds(
        clearShapes(
          extractAtomSymbols(
            extractAtomCoords(IF w.activeMolIdx_ = 0 THEN Emit(w, "clear")
                              ELSE w, mol),
            mol)),
        mol)

Restore_noTranslation(w, saved) ==
  [w EXCEPT !.scale_ = saved[1], !.fontScale = saved[2],
            !.x_offset_ = saved[5], !.y_offset_ = saved[6],
            !.x_min_ = saved[7], !.y_min_ = saved[8]]

Restore(w, saved) ==
  [w EXCEPT !.scale_ = saved[1], !.fontScale = saved[2],
            !.x_trans_ = saved[3], !.y_trans_ = saved[4],
            !.x_offset_ = saved[5], !.y_offset_ = saved[6],
            !.x_min_ = saved[7], !.y_min_ = saved[8]]

Probe(entry, exit) ==
  [ran |-> TRUE, returned |-> exit.err = "ok",
   needs_scale |-> entry.needs_scale_, active |-> entry.activeMolIdx_,
   entry |-> ScaleState(entry), exit |-> ScaleState(exit)]

\* MolDraw2D::setupDrawMolecule
setupDrawMolecule(w, mol, hl, width, height) ==
  LET saved == ScaleState(w)
      r == [w EXCEPT !.scale_ = R(1), !.fontScale = R(1),
                     !.x_trans_ = R(0), !.y_trans_ = R(0),
                     !.x_offset_ = 0, !.y_offset_ = 0,
                     !.x_min_ = R(0), !.y_min_ = R(0)]
      restored(b) == IF b.err # "ok" THEN b ELSE Restore(b, saved)
      scaled(s) == IF s.err = "ok" THEN [s EXCEPT !.needs_scale_ = FALSE]
                   ELSE s
      rescaled(c) ==
        IF c.err = "ok" /\ c.activeMolIdx_ = 0 /\ c.needs_scale_
        THEN scaled(calculateScale(c, width, height, mol, hl))
        ELSE c
      probed(x) == [x EXCEPT !.probe = Probe(w, x)]
  IN  IF w.err # "ok" THEN w
      ELSE probed(IF ~mol.conf THEN r
                  ELSE rescaled(restored(setupBody(r, mol))))

----------------------------------------------------------------------------
(* Drawing one molecule *)

RECURSIVE EmitN(_, _, _)
EmitN(w, p, n) == IF n <= 0 THEN w ELSE EmitN(Emit(w, p), p, n - 1)

\* the atoms a region of drawOptions().atomRegions names
region == <<0, 1>>

\* what reading a vector outside its bounds can do
UBOutcomes == {"crash", "garbage"}

\* MolDraw2D::setupMoleculeDraw
setupMoleculeDraw(w, mol, hl, opts, ub) ==
  LET inRange(cds) == \A k \in 1..Len(region) : region[k] < Len(cds)
      regions(w1) ==
        IF w1.err # "ok" \/ ~opts.atomRegions THEN w1
        ELSE IF inRange(w1.at_cds_[Act(w1)]) \/ ub = "garbage"
        THEN Emit(w1, "region")
        ELSE Raise(w1, "crash")
  IN  regions(setupDrawMolecule(w, mol, hl, panelWidth(w), drawHeight(w)))

\* getBondHighlightsForAtoms: the bonds between two highlighted atoms
HighlightedBonds(mol, hl) ==
  {k \in 1..Len(mol.bonds) :
     hl.given /\ mol.bonds[k][1] \in hl.atoms /\ mol.bonds[k][2] \in hl.atoms}

HighlightedAtoms(mol, hl) ==
  {i \in 0..(NumAtoms(mol) - 1) : hl.given /\ i \in hl.atoms}

\* MolDraw2D::doContinuousHighlighting
doContinuousHighlighting(w, mol, hl) ==
  IF w.activeMolIdx_ < 0 THEN Raise(w, "precondition")
  ELSE EmitN(EmitN(w, "highlight", Cardinality(HighlightedBonds(mol, hl))),
             "highlight", Cardinality(HighlightedAtoms(mol, hl)))

\* MolDraw2D::drawBonds, called with an active context; the probe records
\* the scale and translation the bonds are drawn under
drawBonds(w, mol) ==
  EmitN([w EXCEPT !.probe =
                    [bonds |-> <<w.scale_, w.x_trans_, w.y_trans_>>] @@ @],
        "bond",
        Cardinality({k \in 1..Len(mol.bonds) :
                       mol.bonds[k][2] < Len(w.at_cds_[Act(w)])}))

CountLabels(syms) == Cardinality({i \in 1..Len(syms) : syms[i][1] # ""})

\* MolDraw2D::finishMoleculeDraw, called with an active context
finishMoleculeDraw(w) ==
  LET w1 == EmitN(w, "label", CountLabels(w.atom_syms_[Act(w)]))
      w2 == EmitN(w1, "annotation", Len(w.annotations_[Act(w)]))
      w3 == EmitN(w2, "radical", Len(w.radicals_[Act(w)]))
  IN  EmitN(w3, "postshape", Len(w.post_shapes_[Act(w)]))

drawMolecule_highlightsLast(w, mol, hl, opts, ub) ==
  LET highlights(w3) ==
        IF opts.continuousHighlight
        THEN doContinuousHighlighting(w3, mol, hl)
        ELSE EmitN(w3, "highlight", Cardinality(HighlightedAtoms(mol, hl)))
      draw(w2) ==
        IF w2.err # "ok" \/ ~mol.conf THEN w2
        ELSE finishMoleculeDraw(
               highlights(drawBonds(EmitN(w2, "preshape",
                                          Len(w2.pre_shapes_[Act(w2)])),
                                    mol)))
  IN  draw(setupMoleculeDraw(pushDrawDetails(w), mol, hl, opts, ub))

\* MolDraw2D::drawMolecule(mol, highlight_atoms, highlight_bonds, ...)
drawMolecule(w, mol, hl, opts, ub) ==
  LET metadata(w5) ==
        IF opts.includeMetadata
        THEN [w5 EXCEPT !.d_numMetadataEntries = @ + 1]
        ELSE w5
      bondsAndLabels(w4) ==
        IF w4.err # "ok" THEN w4
        ELSE metadata(finishMoleculeDraw(drawBonds(w4, mol)))
      highlights(w3) ==
        IF opts.continuousHighlight
        THEN doContinuousHighlighting(w3, mol, hl)
        ELSE EmitN(w3, "highlight", Cardinality(HighlightedAtoms(mol, hl)))
      draw(w2) ==
        IF w2.err # "ok" \/ ~mol.conf THEN w2
        ELSE bondsAndLabels(
               highlights(EmitN(w2, "preshape",
                                Len(w2.pre_shapes_[Act(w2)]))))
  IN  draw(setupMoleculeDraw(pushDrawDetails(w), mol, hl, opts, ub))

\* MolDraw2D::drawLegend
drawLegend(w, legend) == IF legend # "" THEN Emit(w, "legend") ELSE w

\* MolDraw2D::drawMolecule(mol, legend, highlight_atoms, highlight_bonds, ...)
drawMoleculeLegend(w, mol, legend, hl, opts, ub) ==
  LET lh == (5 * panelHeight(w)) \div 100
      withLegend(w2) == IF w2.err # "ok" THEN w2 ELSE drawLegend(w2, legend)
  IN  withLegend(
        drawMolecule([w EXCEPT !.legend_height_ =
                                 IF legend # ""
                                 THEN (IF lh < 20 THEN 20 ELSE lh)
                                 ELSE 0],
                     mol, hl, opts, ub))

\* MolDraw2D::drawMoleculeWithHighlights
drawMoleculeWithHighlights(w, mol, legend, hl, opts, ub) ==
  LET highlights(w4) ==
        EmitN(EmitN(w4, "highlight", Cardinality(HighlightedBonds(mol, hl))),
              "highlight", Cardinality(HighlightedAtoms(mol, hl)))
      draw(w3) ==
        IF w3.err # "ok" \/ ~mol.conf THEN w3
        ELSE popDrawDetails(
               drawLegend(
                 finishMoleculeDraw(
                   drawBonds(
                     highlights(EmitN(w3, "preshape",
                                      Len(w3.pre_shapes_[Act(w3)]))),
                     mol)),
                 legend))
  IN  draw(setupMoleculeDraw(
             pushDrawDetails([w EXCEPT !.legend_height_ =
                                         IF legend # ""
                                         THEN (5 * panelHeight(w)) \div 100
                                         ELSE 0]),
             mol, hl, opts, ub))

----------------------------------------------------------------------------
(* Drawing a list of molecules *)

\* MolDraw2D::tabulaRasa
tabulaRasa(w) ==
  [w EXCEPT !.scale_ = R(1), !.fontScale = R(1),
            !.x_trans_ = R(0), !.y_trans_ = R(0),
            !.x_offset_ = 0, !.y_offset_ = 0,
            !.d_numMetadataEntries = 0]

NoBatch == [running |-> FALSE]

\* the locals of calculateScale(width, height, mols, ...) before its loop
StartBatch(w, ms, hl, opts) ==
  [running |-> TRUE, mols |-> ms, hl |-> hl, opts |-> opts, i |-> 1,
   width |-> panelWidth(w), height |-> drawHeight(w),
   global_x_min |-> DBL_MAX, global_y_min |-> DBL_MAX,
   global_x_max |-> RNeg(DBL_MAX), global_y_max |-> RNeg(DBL_MAX),
   meanBondLength |-> R(0), nBonds |-> 0]

\* one iteration of the loop of calculateScale(width, height, mols, ...):
\* the drawer and the locals after entry b.i has been processed
scaleEntry(w, b) ==
  LET m == b.mols[b.i]
      collected(w3) ==
        [b EXCEPT
           !.global_x_min = RMin(w3.x_min_, @),
           !.global_x_max = RMax(RAdd(w3.x_min_, w3.x_range_), @),
           !.global_y_min = RMin(w3.y_min_, @),
           !.global_y_max = RMax(RAdd(w3.y_min_, w3.y_range_), @)]
      next(b3) ==
        [b3 EXCEPT !.i = @ + 1,
                   !.meanBondLength = RAdd(@, SumBondLengths(m, 1)),
                   !.nBonds = @ + Len(m.bonds)]
      skip(b3) == [b3 EXCEPT !.i = @ + 1]
      entry(w3) ==
        IF w3.err # "ok" THEN [w |-> w3, b |-> b]
        ELSE IF ~m.conf THEN [w |-> Raise(w3, "conformer"), b |-> collected(w3)]
        ELSE [w |-> popDrawDetails(w3), b |-> next(collected(w3))]
  IN  IF IsNull(m) THEN [w |-> tabulaRasa(w), b |-> skip(b)]
      ELSE entry(setupDrawMolecule(
                   [pushDrawDetails(tabulaRasa(w)) EXCEPT
                      !.needs_scale_ = TRUE],
                   m, b.hl, b.width, b.height))

\* the end of calculateScale(width, height, mols, ...) and the statement of
\* drawMolecules that follows the call
scaleFinish(w, b) ==
  LET w0 == baseFontCorrection(w, b.meanBondLength, b.nBonds)
      w1 == [w0 EXCEPT !.x_min_ = b.global_x_min,
                      !.y_min_ = b.global_y_min,
                      !.x_range_ = RSub(b.global_x_max, b.global_x_min),
                      !.y_range_ = RSub(b.global_y_max, b.global_y_min)]
      w2 == [w1 EXCEPT !.scale_ = FitScale(w1, b.width, b.height)]
      w3 == centrePicture([w2 EXCEPT !.fontScale = w2.scale_],
                          b.width, b.height)
  IN  [w3 EXCEPT !.needs_scale_ = FALSE]

\* setOffset
setOffset(w, x, y) == [w EXCEPT !.x_offset_ = x, !.y_offset_ = y]

gridCell_unguarded(w, i) ==
  <<i % (w.width_ \div panelWidth(w)), i \div (w.width_ \div panelWidth(w))>>

\* the column and row drawMolecules draws list index i (0-based) in
gridCell(w, i) ==
  LET nCols == w.width_ \div panelWidth(w)
      nRows == w.height_ \div panelHeight(w)
  IN  <<IF nCols > 1 THEN i % nCols ELSE 0,
        IF nRows > 1 THEN i \div nCols ELSE 0>>

\* one iteration of the drawing loop of drawMolecules, for list index i
\* (0-based)
drawEntry(w, b, ub) ==
  LET i == b.i - 1
      m == b.mols[b.i]
      placed(cell) ==
        setOffset(w, cell[1] * panelWidth(w), cell[2] * panelHeight(w))
      drawn(w2) ==
        IF w2.err # "ok" THEN w2
        ELSE IF NumAtoms(m) > 0 /\ w2.activeMolIdx_ < 0
        THEN Raise(w2, "precondition")
        ELSE w2
  IN  IF IsNull(m) THEN w
      ELSE drawn(drawMoleculeLegend(placed(gridCell(w, i)),
                                    m, "", b.hl, b.opts, ub))

----------------------------------------------------------------------------
(* Methods that index the per-molecule arrays by the active index, called  *)
(* on their own.  Each yields the error raised ("ok" if none) and whether  *)
(* a per-molecule array was read outside its bounds.                       *)

AccessorNames ==
  {"getDrawCoords", "getAtomCoords", "getColour", "calcLabelEllipse",
   "highlightCloseContacts", "finishMoleculeDraw", "drawBonds"}

\* the guard each method puts before its first read of a per-molecule array
HasActiveCheck(name) ==
  name \in {"getDrawCoords", "getAtomCoords", "getColour"}

\* whether the method reads an array indexed by the active index at all
\* (flag: flagCloseContactsDist >= 0 for highlightCloseContacts, the
\* molecule has a bond for drawBonds)
ReadsContext(name, flag) ==
  IF name \in {"highlightCloseContacts", "drawBonds"} THEN flag ELSE TRUE

accessorOutcome(w, name, atom_idx, flag) ==
  LET inStack == w.activeMolIdx_ >= 0 /\ w.activeMolIdx_ < Len(w.at_cds_)
      inNums == inStack /\ atom_idx < Len(w.atomic_nums_[Act(w)])
      inAtoms == inStack /\ atom_idx < Len(w.at_cds_[Act(w)])
                 /\ (name = "calcLabelEllipse"
                       => atom_idx < Len(w.atom_syms_[Act(w)]))
      perAtom == name \in {"getDrawCoords", "getAtomCoords", "getColour",
                           "calcLabelEllipse"}
  IN  IF HasActiveCheck(name) /\ w.activeMolIdx_ < 0 THEN "precondition"
      ELSE IF name = "getColour" THEN (IF inNums THEN "ok" ELSE "precondition")
      ELSE IF ~ReadsContext(name, flag) THEN "ok"
      ELSE IF ~inStack \/ (perAtom /\ ~inAtoms) THEN "out_of_bounds"
      ELSE "ok"

----------------------------------------------------------------------------
(* The drawer as a state machine *)

\* width, height, panelWidth, panelHeight given to the constructor
DrawerSizes == {<<120, 120, 60, 60>>}

DefaultOptions ==
  [atomRegions |-> FALSE, includeMetadata |-> FALSE,
   continuousHighlight |-> FALSE]

\* the highlights and options a draw call is made with
Requests ==
  {[hl |-> NoHighlights, opts |-> DefaultOptions],
   [hl |-> [given |-> TRUE, atoms |-> {0, 1}],
    opts |-> [DefaultOptions EXCEPT !.atomRegions = TRUE]],
   [hl |-> [given |-> TRUE, atoms |-> {0, 1}],
    opts |-> [DefaultOptions EXCEPT !.includeMetadata = TRUE,
                                    !.continuousHighlight = TRUE]]}

Legends == {"", "legend"}

\* the molecule lists handed to drawMolecules
MolLists ==
  {<<>>, <<Ethane>>, <<NoCoords>>, <<NullMol, Ethanol>>, <<Ethanol, NullMol>>,
   <<Ethane, Ethanol>>}

\* the drawer's fields take the values of record w
SetDrawer(w) ==
  /\ width_' = w.width_ /\ height_' = w.height_
  /\ panel_width_' = w.panel_width_ /\ panel_height_' = w.panel_height_
  /\ legend_height_' = w.legend_height_
  /\ needs_scale_' = w.needs_scale_
  /\ scale_' = w.scale_ /\ fontScale' = w.fontScale
  /\ baseFontSize' = w.baseFontSize
  /\ x_min_' = w.x_min_ /\ y_min_' = w.y_min_
  /\ x_range_' = w.x_range_ /\ y_range_' = w.y_range_
  /\ x_trans_' = w.x_trans_ /\ y_trans_' = w.y_trans_
  /\ x_offset_' = w.x_offset_ /\ y_offset_' = w.y_offset_
  /\ activeMolIdx_' = w.activeMolIdx_
  /\ at_cds_' = w.at_cds_ /\ atomic_nums_' = w.atomic_nums_
  /\ atom_syms_' = w.atom_syms_ /\ annotations_' = w.annotations_
  /\ pre_shapes_' = w.pre_shapes_ /\ post_shapes_' = w.post_shapes_
  /\ radicals_' = w.radicals_
  /\ d_numMetadataEntries' = w.d_numMetadataEntries

DrawerUnchanged ==
  UNCHANGED <<width_, height_, panel_width_, panel_height_, legend_height_,
              needs_scale_, scale_, fontScale, baseFontSize, x_min_, y_min_,
              x_range_, y_range_, x_trans_, y_trans_, x_offset_, y_offset_,
              activeMolIdx_, at_cds_, atomic_nums_, atom_syms_, annotations_,
              pre_shapes_, post_shapes_, radicals_, d_numMetadataEntries>>

\* the entry point `op` has run on the drawer and left it as w
Done(w, op, args) ==
  /\ SetDrawer(w)
  /\ call' = [op |-> op, args |-> args, outcome |-> w.err, pre |-> St,
              pre_batch |-> batch]
  /\ prims' = w.out
  /\ sdm' = w.probe

NoCall == [op |-> "none", args |-> <<>>, outcome |-> "ok"]

InitDrawer(d) ==
  /\ width_ = d.width_ /\ height_ = d.height_
  /\ panel_width_ = d.panel_width_ /\ panel_height_ = d.panel_height_
  /\ legend_height_ = d.legend_height_
  /\ needs_scale_ = d.needs_scale_
  /\ scale_ = d.scale_ /\ fontScale = d.fontScale
  /\ baseFontSize = d.baseFontSize
  /\ x_min_ = d.x_min_ /\ y_min_ = d.y_min_
  /\ x_range_ = d.x_range_ /\ y_range_ = d.y_range_
  /\ x_trans_ = d.x_trans_ /\ y_trans_ = d.y_trans_
  /\ x_offset_ = d.x_offset_ /\ y_offset_ = d.y_offset_
  /\ activeMolIdx_ = d.activeMolIdx_
  /\ at_cds_ = d.at_cds_ /\ atomic_nums_ = d.atomic_nums_
  /\ atom_syms_ = d.atom_syms_ /\ annotations_ = d.annotations_
  /\ pre_shapes_ = d.pre_shapes_ /\ post_shapes_ = d.post_shapes_
  /\ radicals_ = d.radicals_
  /\ d_numMetadataEntries = d.d_numMetadataEntries

\* a newly constructed drawer on which no method has run
Init ==
  /\ \E sz \in DrawerSizes : InitDrawer(MolDraw2D(sz[1], sz[2], sz[3], sz[4]))
  /\ pc = "idle"
  /\ batch = NoBatch
  /\ call = NoCall
  /\ prims = <<>>
  /\ sdm = NoProbe

\* where control is after a method has ended with outcome err
After(err) == IF err = "crash" THEN "crashed" ELSE "idle"

Room(n) == activeMolIdx_ + 1 + n <= MaxDepth

DrawMolecule(mol, rq, ub) ==
  /\ pc = "idle" /\ Room(1)
  /\ \E w \in {drawMolecule(Work(St), mol, rq.hl, rq.opts, ub)} :
       /\ Done(w, "drawMolecule", <<mol, "", rq>>)
       /\ pc' = After(w.err)
  /\ UNCHANGED batch

DrawMoleculeLegend(mol, legend, rq, ub) ==
  /\ pc = "idle" /\ Room(1)
  /\ \E w \in {drawMoleculeLegend(Work(St), mol, legend, rq.hl, rq.opts,
                                  ub)} :
       /\ Done(w, "drawMoleculeLegend", <<mol, legend, rq>>)
       /\ pc' = After(w.err)
  /\ UNCHANGED batch

DrawMoleculeWithHighlights(mol, legend, rq, ub) ==
  /\ pc = "idle" /\ Room(1)
  /\ rq.hl.given
  /\ \E w \in {drawMoleculeWithHighlights(Work(St), mol, legend, rq.hl,
                                          rq.opts, ub)} :
       /\ Done(w, "drawMoleculeWithHighlights", <<mol, legend, rq>>)
       /\ pc' = After(w.err)
  /\ UNCHANGED batch

PushDrawDetails ==
  /\ pc = "idle" /\ Room(1)
  /\ Done(pushDrawDetails(Work(St)), "pushDrawDetails", <<>>)
  /\ UNCHANGED <<pc, batch>>

PopDrawDetails ==
  /\ pc = "idle" /\ activeMolIdx_ >= 0
  /\ Done(popDrawDetails(Work(St)), "popDrawDetails", <<>>)
  /\ UNCHANGED <<pc, batch>>

\* extractAtomCoords followed by extractAtomSymbols on the active context
ExtractPass(mol) ==
  /\ pc = "idle"
  /\ activeMolIdx_ >= 0 =>
       Len(atom_syms_[activeMolIdx_ + 1]) + NumAtoms(mol) <= MaxSymbols
  /\ Done(extractAtomSymbols(extractAtomCoords(Work(St), mol), mol),
          "extractPass", <<mol>>)
  /\ UNCHANGED <<pc, batch>>

CallAccessor(name, atom_idx, flag) ==
  /\ pc = "idle"
  /\ \E o \in {accessorOutcome(St, name, atom_idx, flag)} :
       /\ call' = [op |-> name, args |-> <<atom_idx, flag>>, outcome |-> o,
                   pre |-> St]
       /\ pc' \in IF o = "out_of_bounds" THEN {"idle", "crashed"}
                  ELSE {"idle"}
  /\ prims' = <<>>
  /\ DrawerUnchanged
  /\ UNCHANGED <<batch, sdm>>

DrawMoleculesEntered(ms, rq) ==
  /\ pc = "idle"
  /\ call' = [op |-> "drawMolecules", args |-> <<ms, rq>>,
              outcome |-> "ok", pre |-> St]
  /\ prims' = <<>>
  /\ IF ms = <<>>
     THEN UNCHANGED <<pc, batch>>
     ELSE pc' = "scale" /\ batch' = StartBatch(St, ms, rq.hl, rq.opts)
  /\ DrawerUnchanged
  /\ UNCHANGED sdm

\* drawMolecules, while the context stack has room for the list
DrawMoleculesBegin(ms, rq) == Room(Len(ms)) /\ DrawMoleculesEntered(ms, rq)

CalcScaleStep ==
  /\ pc = "scale" /\ batch.i <= Len(batch.mols)
  /\ \E r \in {scaleEntry(Work(St), batch)} :
       /\ Done(r.w, "calculateScale.entry", <<batch.i, batch.mols[batch.i]>>)
       /\ batch' = IF r.w.err = "ok" THEN r.b ELSE NoBatch
       /\ pc' = IF r.w.err = "ok" THEN "scale" ELSE After(r.w.err)

CalcScaleFinish ==
  /\ pc = "scale" /\ batch.i > Len(batch.mols)
  /\ Done(scaleFinish(Work(St), batch), "calculateScale.end", <<batch.mols>>)
  /\ batch' = [batch EXCEPT !.i = 1]
  /\ pc' = "draw"

DrawStep(ub) ==
  /\ pc = "draw" /\ batch.i <= Len(batch.mols)
  /\ \E w \in {drawEntry(Work(St), batch, ub)} :
       /\ Done(w, "drawMolecules.entry", <<batch.i, batch.mols[batch.i]>>)
       /\ batch' = IF w.err = "ok" THEN [batch EXCEPT !.i = @ + 1]
                   ELSE NoBatch
       /\ pc' = IF w.err = "ok" THEN "draw" ELSE After(w.err)

DrawMoleculesEnd ==
  /\ pc = "draw" /\ batch.i > Len(batch.mols)
  /\ call' = [op |-> "drawMolecules.end", args |-> <<batch.mols>>,
              outcome |-> "ok", pre |-> St]
  /\ prims' = <<>>
  /\ pc' = "idle"
  /\ batch' = NoBatch
  /\ DrawerUnchanged
  /\ UNCHANGED sdm

\* getDrawCoords(const Point2D &) called on its own
ToDevice(p) ==
  /\ pc = "idle"
  /\ call' = [op |-> "getDrawCoords", args |-> <<p>>, outcome |-> "ok",
              res |-> getDrawCoords(St, p), pre |-> St]
  /\ prims' = <<>>
  /\ DrawerUnchanged
  /\ UNCHANGED <<pc, batch, sdm>>

\* getAtomCoords(const pair<double, double> &) called on its own
ToMolecule(q) ==
  /\ pc = "idle"
  /\ call' = [op |-> "getAtomCoords", args |-> <<q>>, outcome |-> "ok",
              res |-> getAtomCoords(St, q), pre |-> St]
  /\ prims' = <<>>
  /\ DrawerUnchanged
  /\ UNCHANGED <<pc, batch, sdm>>

Next ==
  \/ \E mol \in Mols, rq \in Requests, ub \in UBOutcomes :
       DrawMolecule(mol, rq, ub)
  \/ \E mol \in Mols, lg \in Legends, rq \in Requests, ub \in UBOutcomes :
       DrawMoleculeLegend(mol, lg, rq, ub)
  \/ \E mol \in Mols, lg \in Legends, rq \in Requests, ub \in UBOutcomes :
       DrawMoleculeWithHighlights(mol, lg, rq, ub)
  \/ \E ms \in MolLists, rq \in Requests : DrawMoleculesBegin(ms, rq)
  \/ CalcScaleStep
  \/ CalcScaleFinish
  \/ \E ub \in UBOutcomes : DrawStep(ub)
  \/ DrawMoleculesEnd

Spec == Init /\ [][Next]_vars

\* the protected stack, extraction and accessor methods called on their own
NextStack ==
  \/ PushDrawDetails
  \/ PopDrawDetails
  \/ \E mol \in {Ethanol, NoCoords} : ExtractPass(mol)
  \/ \E name \in AccessorNames, idx \in 0..1, flag \in BOOLEAN :
       CallAccessor(name, idx, flag)

SpecStack == Init /\ [][NextStack]_vars

----------------------------------------------------------------------------
(* The coordinate transform under an arbitrary scale state *)

ScaleValues == {R(0), R(2), Q(-3, 2), Q(4000, 363)}
MinValues == {R(0), Q(-5, 4)}
TransValues == {R(0), Q(11, 100)}
OffsetValues == {0, 60}
LegendValues == {0, 20}
PanelHeights == {60, 45}
Points == {<<R(0), R(0)>>, <<R(3), R(-2)>>, <<Q(7, 2), Q(1, 3)>>}

InitCoords ==
  /\ \E s \in ScaleValues, xm \in MinValues, ym \in MinValues,
        xt \in TransValues, yt \in TransValues, xo \in OffsetValues,
        yo \in OffsetValues, lh \in LegendValues, ph \in PanelHeights :
       InitDrawer([MolDraw2D(120, 120, 60, ph) EXCEPT
                     !.scale_ = s, !.x_min_ = xm, !.y_min_ = ym,
                     !.x_trans_ = xt, !.y_trans_ = yt, !.x_offset_ = xo,
                     !.y_offset_ = yo, !.legend_height_ = lh])
  /\ pc = "idle"
  /\ batch = NoBatch
  /\ call = NoCall
  /\ prims = <<>>
  /\ sdm = NoProbe

NextCoords ==
  \/ \E p \in Points : ToDevice(p)
  \/ \E q \in Points : ToMolecule(q)

SpecCoords == InitCoords /\ [][NextCoords]_vars

----------------------------------------------------------------------------
(* calculateScale called repeatedly on one active context, its loop taken  *)
(* one pass at a time                                                      *)

\* the number of calls of calculateScale made on a context
MaxScaleCalls == 3

ScaleMols == {Ethane, Ethanol, ShortBonds, ShortBare}

\* the width and height calculateScale is called with
ScaleSizes == {<<60, 60>>, <<120, 45>>, <<45, 60>>}

\* a context is pushed and filled from the molecule, as setupDrawMolecule
\* does before it calls calculateScale
PrepareContext(mol) ==
  /\ pc = "idle" /\ activeMolIdx_ < 0
  /\ Done(setupBody(pushDrawDetails(Work(St)), mol), "prepare", <<mol>>)
  /\ batch' = [running |-> FALSE, mol |-> mol, calls |-> 0,
               size |-> <<>>, result |-> <<>>,
               prev_size |-> <<>>, prev_result |-> <<>>]
  /\ pc' = "idle"

\* calculateScale from its entry to the head of its loop
CalcScaleBegin(size) ==
  /\ pc = "idle" /\ activeMolIdx_ >= 0 /\ batch.calls < MaxScaleCalls
  /\ Done(calculateScaleHead(Work(St), size[1], size[2]),
          "calculateScale.begin", <<size>>)
  /\ batch' = [batch EXCEPT !.running = TRUE, !.size = size,
                            !.prev_size = batch.size,
                            !.prev_result = batch.result]
  /\ pc' = "fitting"

\* one pass through the loop of calculateScale
ScaleIterStep ==
  /\ pc = "fitting" /\ scaleLoopEntered(St)
  /\ \E w \in {scaleIter(Work(St), batch.size[1], batch.size[2],
                          NoHighlights)} :
       /\ Done(w, "calculateScale.iter", <<batch.size>>)
       /\ pc' = IF scaleLoopBreaks(scale_, w) THEN "fitted" ELSE "fitting"
  /\ UNCHANGED batch

\* calculateScale from the exit of its loop to its return
CalcScaleEnd ==
  /\ pc = "fitted" \/ (pc = "fitting" /\ ~scaleLoopEntered(St))
  /\ \E w \in {calculateScaleTail(Work(St), batch.size[1], batch.size[2],
                                   batch.mol)} :
       /\ Done(w, "calculateScale.return", <<batch.size>>)
       /\ batch' = [batch EXCEPT
                      !.running = FALSE, !.calls = @ + 1,
                      !.result = <<w.scale_, w.x_trans_, w.y_trans_>>]
  /\ pc' = "idle"

NextScale ==
  \/ \E mol \in ScaleMols : PrepareContext(mol)
  \/ \E size \in ScaleSizes : CalcScaleBegin(size)
  \/ ScaleIterStep
  \/ CalcScaleEnd

SpecScale == Init /\ [][NextScale]_vars

\* calculateScale is sequential code: once entered, its loop and its tail
\* run on
SpecScaleFair ==
  SpecScale /\ WF_vars(ScaleIterStep) /\ WF_vars(CalcScaleEnd)

----------------------------------------------------------------------------
(* Bond geometry: drawBond on a double bond or a wedged single bond of a   *)
(* context whose atoms carry no labels                                     *)

VSub(p, q) == <<RSub(p[1], q[1]), RSub(p[2], q[2])>>
VAdd(p, q) == <<RAdd(p[1], q[1]), RAdd(p[2], q[2])>>
VScale(p, k) == <<RMul(p[1], k), RMul(p[2], k)>>
Dot(p, q) == RAdd(RMul(p[1], q[1]), RMul(p[2], q[2]))
Origin == <<R(0), R(0)>>

\* calcPerpendicular: the normalised perpendicular to the vector from cds2
\* to cds1
calcPerpendicular(cds1, cds2) ==
  The({VScale(<<RNeg(bv[2]), bv[1]>>, RDiv(R(1), Length(bv, Origin))) :
         bv \in {VSub(cds1, cds2)}})

calcInnerPerpendicular_noTurn(cds1, cds2, cds3) ==
  calcPerpendicular(cds1, cds2)

\* calcInnerPerpendicular: the perpendicular turned to the inside of the
\* angle 1-2-3
calcInnerPerpendicular(cds1, cds2, cds3) ==
  The({IF RLt(Dot(VSub(VSub(cds1, cds2), VSub(cds2, cds3)), perp), R(0))
       THEN VScale(perp, R(-1)) ELSE perp :
         perp \in {calcPerpendicular(cds1, cds2)}})

\* an atom of a drawn bond: its position, its chiral tag and its other
\* neighbour, if it has one
NoNbr == [none |-> TRUE]
Nbr(x, y, type) == [pos |-> <<R(x), R(y)>>, type |-> type]
HasNbr(a) == "none" \notin DOMAIN a.nbr
Degree(a) == IF HasNbr(a) THEN 2 ELSE 1
Tetrahedral(a) == a.tag \in {"CHI_TETRAHEDRAL_CW", "CHI_TETRAHEDRAL_CCW"}

\* isLinearAtom: two bonds of the same type in nearly opposite directions
isLinearAtom(a, other, type) ==
  LET unit(v) == VScale(v, RDiv(R(1), Length(v, Origin)))
  IN  /\ Degree(a) = 2
      /\ a.nbr.type = type
      /\ RLt(Dot(unit(VSub(other.pos, a.pos)), unit(VSub(a.nbr.pos, a.pos))),
             Q(-95, 100))

\* calcDoubleBondLines, with bondInsideRing and bondInsideDoubleBond: the
\* third atom is the begin atom's other neighbour in both
calcDoubleBondLines(offset, bond, at1_cds, at2_cds) ==
  LET at1 == bond.at1
      at2 == bond.at2
      sided(perp) ==
        [l1s |-> VAdd(at1_cds, perp), l1f |-> VAdd(at2_cds, perp),
         l2s |-> VSub(at1_cds, perp), l2f |-> VSub(at2_cds, perp)]
      crossed(perp) ==
        [l1s |-> VAdd(at1_cds, perp), l1f |-> VSub(at2_cds, perp),
         l2s |-> VSub(at1_cds, perp), l2f |-> VAdd(at2_cds, perp)]
      inner(perp, bv) ==
        [l1s |-> at1_cds, l1f |-> at2_cds,
         l2s |-> VAdd(VSub(at1_cds, VScale(bv, Q(15, 100))), perp),
         l2f |-> VAdd(VAdd(at2_cds, VScale(bv, Q(15, 100))), perp)]
  IN  IF \/ Degree(at1) = 1 \/ Degree(at2) = 1
         \/ isLinearAtom(at1, at2, bond.type)
         \/ isLinearAtom(at2, at1, bond.type)
      THEN sided(VScale(calcPerpendicular(at1_cds, at2_cds), offset))
      ELSE IF bond.dir = "EITHERDOUBLE" \/ bond.stereo = "STEREOANY"
      THEN crossed(VScale(calcPerpendicular(at1_cds, at2_cds), offset))
      ELSE inner(VScale(IF bond.inRing
                        THEN calcInnerPerpendicular(at1_cds, at2_cds,
                                                    at1.nbr.pos)
                        ELSE calcInnerPerpendicular(at2.pos, at1.pos,
                                                    at1.nbr.pos),
                        RMul(offset, R(2))),
                 VSub(at1_cds, at2_cds))

\* drawWedgedBond: the outline of the wedge, its point at cds1 and its broad
\* end about cds2
drawWedgedBond(scale, inverted, cds1, cds2, draw_dashed) ==
  LET outline(disp) ==
        [wedge |-> TRUE, dashed |-> draw_dashed, inverted |-> inverted,
         apex |-> cds1, end1 |-> VAdd(cds2, disp), end2 |-> VSub(cds2, disp)]
  IN  outline(VScale(calcPerpendicular(cds1, cds2),
                     IF RLt(R(40), scale) THEN RMul(Q(15, 100), Q(6, 10))
                     ELSE Q(15, 100)))

wedgeInverted_never(bond) == FALSE

\* the test of drawNormalBond that turns a wedge round: at1 is the begin
\* atom, so its second alternative never holds
wedgeInverted(bond) == ~Tetrahedral(bond.at1)

\* drawNormalBond for double bonds and for single bonds with a wedge or dash
drawNormalBond(scale, bond, at1_cds, at2_cds, double_bond_offset) ==
  IF bond.type \in {"DOUBLE", "AROMATIC"}
  THEN calcDoubleBondLines(double_bond_offset, bond, at1_cds, at2_cds)
  ELSE IF wedgeInverted(bond)
  THEN drawWedgedBond(scale, TRUE, at2_cds, at1_cds, bond.dir = "BEGINDASH")
  ELSE drawWedgedBond(scale, FALSE, at1_cds, at2_cds, bond.dir = "BEGINDASH")

\* drawOptions().multipleBondOffset
multipleBondOffset == Q(15, 100)

\* MolDraw2D::drawBond: the offset is scaled back for short bonds; the atoms
\* have no labels, so the bond ends stay at the atoms
drawBond(scale, bond) ==
  drawNormalBond(scale, bond, bond.at1.pos, bond.at2.pos,
                 IF RLt(Dot(VSub(bond.at1.pos, bond.at2.pos),
                            VSub(bond.at1.pos, bond.at2.pos)), Q(14, 10))
                 THEN RMul(multipleBondOffset, Q(6, 10))
                 ELSE multipleBondOffset)

ChiralTags == {"CHI_UNSPECIFIED", "CHI_TETRAHEDRAL_CW", "CHI_TETRAHEDRAL_CCW"}

\* the bonds drawn: the begin atom at the origin, the end atom at distance
\* 1, 4 or 5, each with no or one further neighbour
DoubleBonds ==
  [type : {"DOUBLE"}, dir : {"NONE", "EITHERDOUBLE"},
   stereo : {"STEREONONE", "STEREOANY"}, inRing : BOOLEAN,
   at1 : [pos : {Origin}, tag : {"CHI_UNSPECIFIED"},
          nbr : {NoNbr, Nbr(-3, 4, "SINGLE"), Nbr(-4, 0, "DOUBLE"),
                 Nbr(-3, -4, "DOUBLE")}],
   at2 : [pos : {<<R(4), R(0)>>, <<R(3), R(4)>>, <<R(1), R(0)>>},
          tag : {"CHI_UNSPECIFIED"},
          nbr : {NoNbr, Nbr(7, 4, "SINGLE"), Nbr(7, -4, "SINGLE")}]]

WedgedBonds ==
  [type : {"SINGLE"}, dir : {"BEGINWEDGE", "BEGINDASH"},
   stereo : {"STEREONONE"}, inRing : {FALSE},
   at1 : [pos : {Origin}, tag : ChiralTags,
          nbr : {NoNbr, Nbr(-3, 4, "SINGLE")}],
   at2 : [pos : {<<R(4), R(0)>>, <<R(3), R(4)>>},
          tag : ChiralTags,
          nbr : {NoNbr, Nbr(7, 4, "SINGLE")}]]

BondScales == {R(30), R(50)}

\* a drawer that is about to draw one bond of its active context
InitBonds ==
  /\ \E sz \in DrawerSizes, sc \in BondScales :
       InitDrawer([pushDrawDetails(MolDraw2D(sz[1], sz[2], sz[3], sz[4]))
                     EXCEPT !.scale_ = sc])
  /\ pc = "idle"
  /\ batch \in DoubleBonds \cup WedgedBonds
  /\ call = NoCall
  /\ prims = <<>>
  /\ sdm = NoProbe

DrawBond ==
  /\ pc = "idle" /\ call.op = "none"
  /\ call' = [op |-> "drawBond", args |-> <<batch>>, outcome |-> "ok",
              res |-> drawBond(scale_, batch)]
  /\ prims' = <<IF batch.type = "DOUBLE" THEN "lines" ELSE "wedge">>
  /\ DrawerUnchanged
  /\ UNCHANGED <<pc, batch, sdm>>

SpecBonds == InitBonds /\ [][DrawBond]_vars

----------------------------------------------------------------------------
(* drawMolecules on surfaces of one or several rows and columns of panels  *)

\* width, height, panel width and panel height of the drawers: 2 x 2, 2 x 1,
\* 1 x 2, 1 x 1 and 3 x 2 panels
GridSizes ==
  {<<120, 120, 60, 60>>, <<120, 60, 60, 60>>, <<60, 120, 60, 60>>,
   <<60, 60, 60, 60>>, <<180, 120, 60, 60>>}

GridLists ==
  {<<Ethane, Ethanol, ShortBare>>, <<Ethane, NullMol, Ethanol>>,
   <<NullMol, Ethane>>, <<Ethanol, Ethane, Ethane, Ethanol>>}

InitGrid ==
  /\ \E sz \in GridSizes : InitDrawer(MolDraw2D(sz[1], sz[2], sz[3], sz[4]))
  /\ pc = "idle"
  /\ batch = NoBatch
  /\ call = NoCall
  /\ prims = <<>>
  /\ sdm = NoProbe

NextGrid ==
  \/ \E ms \in GridLists :
       /\ call.op = "none"
       /\ DrawMoleculesEntered(ms, [hl |-> NoHighlights,
                                    opts |-> DefaultOptions])
  \/ CalcScaleStep
  \/ CalcScaleFinish
  \/ \E ub \in UBOutcomes : DrawStep(ub)
  \/ DrawMoleculesEnd

SpecGrid == InitGrid /\ [][NextGrid]_vars

----------------------------------------------------------------------------
(* Annotation placement: the atom notes and bond notes of a molecule of at *)
(* most two atoms, placed by extractAtomNotes and extractBondNotes in the  *)
(* state setupDrawMolecule calls them in (scale 1, no translation)         *)

\* the cosine of a multiple of 30 degrees, to three decimals
CosDeg(d) ==
  LET quadrant(a) == CASE a = 0 -> R(1)
                       [] a = 30 -> Q(866, 1000)
                       [] a = 60 -> Q(1, 2)
                       [] a = 90 -> R(0)
      circle(a) == IF a <= 90 THEN quadrant(a)
                   ELSE IF a <= 180 THEN RNeg(quadrant(180 - a))
                   ELSE IF a <= 270 THEN RNeg(quadrant(a - 180))
                   ELSE quadrant(360 - a)
  IN  circle(d % 360)

SinDeg(d) == CosDeg(d + 270)

\* atan2 of a vector along an axis, in degrees
Atan2Deg(v) ==
  IF RLt(R(0), v[1]) THEN 0
  ELSE IF RLt(v[1], R(0)) THEN 180
  ELSE IF RLt(R(0), v[2]) THEN 90 ELSE 270

\* a StringRect as its constructor leaves it
StringRect ==
  [trans |-> Origin, width |-> R(0), height |-> R(0), clash_score_ |-> 0]

\* MolDrawOptions::bondLineWidth
lineWidth == 2

\* the note of an atom or of a bond ("" when the property is not set)
AtomNote(mol, idx) == mol.atoms[idx + 1].note
BondNote(mol, b) == mol.bond_notes[b]

\* the 0-based indices of the neighbours of atom idx, and of its bonds
BondsOf(mol, idx) ==
  {b \in 1..Len(mol.bonds) : idx \in {mol.bonds[b][1], mol.bonds[b][2]}}
OtherEnd(mol, b, idx) ==
  IF mol.bonds[b][1] = idx THEN mol.bonds[b][2] ELSE mol.bonds[b][1]

\* the Bond a bond of the molecule is to calcDoubleBondLines: its atoms
\* have no further neighbours
BondOf(mol, b) ==
  LET end(i) == [pos |-> mol.atoms[i + 1].pos, tag |-> "CHI_UNSPECIFIED",
                 nbr |-> NoNbr]
  IN  [type |-> mol.bond_types[b], dir |-> "NONE", stereo |-> "STEREONONE",
       inRing |-> FALSE, at1 |-> end(mol.bonds[b][1]),
       at2 |-> end(mol.bonds[b][2])]

\* rectangles with sides along the axes
BoxAt(ext, pos) ==
  [x_min |-> RAdd(pos[1], ext.x_min), x_max |-> RAdd(pos[1], ext.x_max),
   y_min |-> RAdd(pos[2], ext.y_min), y_max |-> RAdd(pos[2], ext.y_max)]
RectBox(rect) ==
  BoxAt([x_min |-> RNeg(RMul(rect.width, Q(1, 2))),
         x_max |-> RMul(rect.width, Q(1, 2)),
         y_min |-> RNeg(RMul(rect.height, Q(1, 2))),
         y_max |-> RMul(rect.height, Q(1, 2))], rect.trans)
SegBox(p, q) ==
  [x_min |-> RMin(p[1], q[1]), x_max |-> RMax(p[1], q[1]),
   y_min |-> RMin(p[2], q[2]), y_max |-> RMax(p[2], q[2])]
Overlap(a, b) ==
  /\ ~RLt(a.x_max, b.x_min) /\ ~RLt(b.x_max, a.x_min)
  /\ ~RLt(a.y_max, b.y_min) /\ ~RLt(b.y_max, a.y_min)

\* two segments have a point in common
doLinesIntersect(p1, p2, q1, q2) ==
  LET side(a, b, c) ==
        The({IF RLt(R(0), x) THEN 1 ELSE IF RLt(x, R(0)) THEN -1 ELSE 0 :
               x \in {RSub(RMul(RSub(b[1], a[1]), RSub(c[2], a[2])),
                           RMul(RSub(b[2], a[2]), RSub(c[1], a[1])))}})
  IN  /\ Overlap(SegBox(p1, p2), SegBox(q1, q2))
      /\ side(p1, p2, q1) * side(p1, p2, q2) <= 0
      /\ side(q1, q2, p1) * side(q1, q2, p2) <= 0

\* DrawText::getStringRects for a note: one rectangle about the origin, at
\* the annotation font scale
noteRects(w, text, afs) ==
  textExtremes(text, "C", fontSize([w EXCEPT !.fontScale = afs]))

\* DrawText::doesLineIntersect: the line crosses an edge of the rectangle
\* widened by the padding
doesLineIntersect(rects, note_pos, end1, end2, pad_by) ==
  LET crossed(b) ==
        \/ doLinesIntersect(end1, end2, <<b.x_min, b.y_max>>,
                            <<b.x_max, b.y_max>>)
        \/ doLinesIntersect(end1, end2, <<b.x_max, b.y_max>>,
                            <<b.x_max, b.y_min>>)
        \/ doLinesIntersect(end1, end2, <<b.x_max, b.y_min>>,
                            <<b.x_min, b.y_min>>)
        \/ doLinesIntersect(end1, end2, <<b.x_min, b.y_min>>,
                            <<b.x_min, b.y_max>>)
  IN  crossed(BoxAt([x_min |-> RSub(rects.x_min, pad_by),
                     x_max |-> RAdd(rects.x_max, pad_by),
                     y_min |-> RSub(rects.y_min, pad_by),
                     y_max |-> RAdd(rects.y_max, pad_by)], note_pos))

\* DrawText::doesStringIntersect: the rectangles overlap the label drawn at
\* cds; an empty label has no rectangles
doesStringIntersect(w, rects, note_pos, label, orient, cds) ==
  /\ label # ""
  /\ Overlap(BoxAt(rects, note_pos),
             BoxAt(textExtremes(label, orient, fontSize(w)), cds))

\* DrawText::doesRectIntersect: the rectangles overlap the rectangle given
doesRectIntersect(rects, note_pos, rect) ==
  Overlap(BoxAt(rects, note_pos), RectBox(rect))

\* MolDraw2D::doesNoteClashNbourBonds (an atom has at most one neighbour)
doesNoteClashNbourBonds(w, note_pos, rects, mol, idx) ==
  LET line_width == RMul(RMul(R(lineWidth), w.scale_), Q(2, 100))
      hits(p, q) ==
        doesLineIntersect(rects, note_pos, getDrawCoords(w, p),
                          getDrawCoords(w, q), line_width)
      offset(nbr_cds, cds) ==
        IF RLt(Dot(VSub(getDrawCoords(w, nbr_cds), getDrawCoords(w, cds)),
                   VSub(getDrawCoords(w, nbr_cds), getDrawCoords(w, cds))),
               RMul(Q(14, 10), w.scale_))
        THEN RMul(multipleBondOffset, Q(6, 10)) ELSE multipleBondOffset
      lines(ls) == hits(ls.l1s, ls.l1f) \/ hits(ls.l2s, ls.l2f)
      clash(b, nbr_cds, cds) ==
        \/ hits(nbr_cds, cds)
        \/ /\ mol.bond_types[b] = "DOUBLE"
           /\ lines(calcDoubleBondLines(offset(nbr_cds, cds), BondOf(mol, b),
                                        nbr_cds, cds))
  IN  \E b \in BondsOf(mol, idx) :
        clash(b, w.at_cds_[Act(w)][OtherEnd(mol, b, idx) + 1],
              w.at_cds_[Act(w)][idx + 1])

\* MolDraw2D::doesNoteClashAtomLabels
doesNoteClashAtomLabels(w, note_pos, rects) ==
  \E a \in 1..Len(w.at_cds_[Act(w)]) :
    doesStringIntersect(w, rects, note_pos, w.atom_syms_[Act(w)][a][1],
                        w.atom_syms_[Act(w)][a][2],
                        getDrawCoords(w, w.at_cds_[Act(w)][a]))

\* MolDraw2D::doesNoteClashOtherNotes
doesNoteClashOtherNotes(w, note_pos, rects) ==
  \E k \in 1..Len(w.annotations_[Act(w)]) :
    doesRectIntersect(rects, note_pos, w.annotations_[Act(w)][k])

doesNoteClash_deaf(w, note_pos, rects, mol, idx) == 0

\* MolDraw2D::doesAtomNoteClash, and doesBondNoteClash with the bond's begin
\* atom
doesNoteClash(w, note_pos, rects, mol, idx) ==
  IF doesNoteClashNbourBonds(w, note_pos, rects, mol, idx) THEN 1
  ELSE IF doesNoteClashAtomLabels(w, note_pos, rects) THEN 2
  ELSE IF doesNoteClashOtherNotes(w, note_pos, rects) THEN 3
  ELSE 0

\* the clash score of a note drawn at trans, as the placement loops ask
\* for it
clashScore(w, trans, text, afs, mol, idx) ==
  doesNoteClash(w, getAtomCoords(w, trans), noteRects(w, text, afs), mol, idx)

\* MolDraw2D::getNoteStartAngle, for an atom with no or one neighbour; the
\* bond vector is not normalised, as only its direction counts
getNoteStartAngle(w, mol, idx) ==
  LET bond_vec(b) ==
        VSub(w.at_cds_[Act(w)][OtherEnd(mol, b, idx) + 1],
             w.at_cds_[Act(w)][idx + 1])
      ret_vec(bv) ==
        IF w.atom_syms_[Act(w)][idx + 1][1] = ""
        THEN <<bv[2], RNeg(bv[1])>> ELSE VScale(bv, R(-1))
  IN  IF BondsOf(mol, idx) = {} THEN 90
      ELSE Atan2Deg(ret_vec(bond_vec(The(BondsOf(mol, idx)))))

skipsFirstRadius_never(j, atsym) == FALSE

\* the close-in radius is not tried for an atom with a symbol
skipsFirstRadius(j, atsym) == j = 1 /\ atsym # ""

rad_step == Q(1, 4)

\* the positions calcAtomAnnotationPosition scans, in its order
atomNoteCandidates(w, mol, idx) ==
  LET skipped(j) == skipsFirstRadius(j, w.atom_syms_[Act(w)][idx + 1][1])
      js == (IF skipped(1) THEN <<>> ELSE <<1>>)
              \o (IF skipped(2) THEN <<>> ELSE <<2>>)
              \o (IF skipped(3) THEN <<>> ELSE <<3>>)
      at(cds, ang, note_rad) ==
        <<RAdd(cds[1], RMul(CosDeg(ang), note_rad)),
          RAdd(cds[2], RMul(SinDeg(ang), note_rad))>>
      start(start_ang) ==
        [k \in 1..(12 * Len(js)) |->
           at(w.at_cds_[Act(w)][idx + 1], start_ang + ((k - 1) % 12) * 30,
              RMul(R(js[((k - 1) \div 12) + 1]), rad_step))] \o <<>>
  IN  start(getNoteStartAngle(w, mol, idx))

mid_offsets == <<Q(1, 2), Q(33, 100), Q(66, 100), Q(1, 4), Q(3, 4)>>

\* the positions calcAnnotationPosition scans for a bond note, in its order
bondNoteCandidates(w, mol, b) ==
  LET js == IF mol.bond_types[b] # "SINGLE" THEN <<2, 3, 4, 5>>
            ELSE <<1, 2, 3, 4, 5>>
      n == 2 * Len(js)
      at(at1_cds, bond, perp, mo, offset, side) ==
        IF side = 0
        THEN VAdd(VAdd(at1_cds, VScale(bond, mo)), VScale(perp, offset))
        ELSE VSub(VAdd(at1_cds, VScale(bond, mo)), VScale(perp, offset))
      scan(at1_cds, at2_cds) ==
        [k \in 1..(Len(mid_offsets) * n) |->
           at(at1_cds, VSub(at2_cds, at1_cds),
              calcPerpendicular(at1_cds, at2_cds),
              mid_offsets[((k - 1) \div n) + 1],
              RMul(R(js[(((k - 1) % n) \div 2) + 1]), multipleBondOffset),
              (k - 1) % 2)] \o <<>>
  IN  scan(w.at_cds_[Act(w)][mol.bonds[b][1] + 1],
           w.at_cds_[Act(w)][mol.bonds[b][2] + 1])

\* the clash scores of the candidates, in their order
clashScores(w, cands, text, afs, mol, idx) ==
  [k \in 1..Len(cands) |-> clashScore(w, cands[k], text, afs, mol, idx)]
    \o <<>>

\* the loop of calcAtomAnnotationPosition: the rectangle it leaves in
\* annot.rect_.  It returns at the first candidate that does not clash.
\* Otherwise candidate k is copied into least_worst_rect if its score is
\* below least_worst_rect.clash_score_, which is 100 until the first copy
\* and the clash score of the copied rectangle, never set, after it.
atomNoteLoop(cands, scores) ==
  LET free == {k \in 1..Len(cands) : scores[k] = 0}
      worst(k) == IF \E i \in 1..(k - 1) : scores[i] < 100
                  THEN StringRect.clash_score_ ELSE 100
      copied == {k \in 1..Len(cands) : scores[k] < worst(k)}
      first(S) == CHOOSE k \in S : \A i \in S : k <= i
      last(S) == CHOOSE k \in S : \A i \in S : i <= k
  IN  IF free # {} THEN [StringRect EXCEPT !.trans = cands[first(free)]]
      ELSE IF copied # {}
      THEN [StringRect EXCEPT !.trans = cands[last(copied)]]
      ELSE [StringRect EXCEPT !.clash_score_ = 100]

\* MolDraw2D::calcAnnotationPosition(mol, atom, annot) for a note that is
\* not empty, with calcAtomAnnotationPosition
calcAtomAnnotationPosition(w, mol, idx, text, afs) ==
  LET scan(cands) ==
        atomNoteLoop(cands, clashScores(w, cands, text, afs, mol, idx))
  IN  scan(atomNoteCandidates(w, mol, idx))

\* the loops of calcAnnotationPosition(mol, bond, annot): the rectangle
\* they leave in annot.rect_, which is the first candidate that does not
\* clash, or the last one tried (least_worst_rect is not copied back)
bondNoteLoop(cands, scores) ==
  LET free == {k \in 1..Len(cands) : scores[k] = 0}
      first(S) == CHOOSE k \in S : \A i \in S : k <= i
  IN  [StringRect EXCEPT
         !.trans = cands[IF free # {} THEN first(free) ELSE Len(cands)]]

\* MolDraw2D::calcAnnotationPosition(mol, bond, annot) for a note that is
\* not empty
calcBondAnnotationPosition(w, mol, b, text, afs) ==
  LET scan(cands) ==
        bondNoteLoop(cands,
                     clashScores(w, cands, text, afs, mol, mol.bonds[b][1]))
  IN  scan(bondNoteCandidates(w, mol, b))

\* the end of the loop bodies of extractAtomNotes and extractBondNotes
keepNote(w, text, rect) ==
  IF RLt(rect.width, R(0)) THEN Emit(w, "warning")
  ELSE [w EXCEPT !.annotations_[Act(w)] =
                   Append(@, rect @@ [text_ |-> text, align |-> "MIDDLE"])]

RECURSIVE atomNotesLoop(_, _, _, _)
atomNotesLoop(w, mol, afs, idx) ==
  IF idx >= NumAtoms(mol) THEN w
  ELSE atomNotesLoop(
         IF AtomNote(mol, idx) = "" THEN w
         ELSE keepNote(w, AtomNote(mol, idx),
                       calcAtomAnnotationPosition(w, mol, idx,
                                                  AtomNote(mol, idx), afs)),
         mol, afs, idx + 1)

\* MolDraw2D::extractAtomNotes
extractAtomNotes(w, mol, afs) ==
  IF w.err # "ok" THEN w
  ELSE IF w.activeMolIdx_ < 0 \/ ~(Len(w.annotations_) > w.activeMolIdx_)
  THEN Raise(w, "precondition")
  ELSE atomNotesLoop(w, mol, afs, 0)

RECURSIVE bondNotesLoop(_, _, _, _)
bondNotesLoop(w, mol, afs, b) ==
  IF b > Len(mol.bonds) THEN w
  ELSE bondNotesLoop(
         IF BondNote(mol, b) = "" THEN w
         ELSE keepNote(w, BondNote(mol, b),
                       calcBondAnnotationPosition(w, mol, b,
                                                  BondNote(mol, b), afs)),
         mol, afs, b + 1)

\* MolDraw2D::extractBondNotes
extractBondNotes(w, mol, afs) ==
  IF w.err # "ok" THEN w
  ELSE IF w.activeMolIdx_ < 0 \/ ~(Len(w.annotations_) > w.activeMolIdx_)
  THEN Raise(w, "precondition")
  ELSE bondNotesLoop(w, mol, afs, 1)

\* the molecules with notes: one or two atoms along the x axis, the first
\* at the origin, bonded or not
NoteAtom(x, sym, orient, num, note) ==
  [pos |-> <<x, R(0)>>, sym |-> sym, orient |-> orient, num |-> num,
   note |-> note]

NoteMols ==
  {[conf |-> TRUE,
    atoms |-> <<NoteAtom(R(0), a[1], a[2], a[3], na),
                NoteAtom(d, b[1], b[2], b[3], nb)>>,
    bonds |-> IF bt = "NONE" THEN <<>> ELSE <<<<0, 1>>>>,
    bond_types |-> IF bt = "NONE" THEN <<>> ELSE <<bt>>,
    bond_notes |-> IF bt = "NONE" THEN <<>> ELSE <<nx>>] :
     a \in {<<"", "C", 6>>, <<"N", "C", 7>>},
     b \in {<<"", "C", 6>>, <<"OH", "E", 8>>},
     d \in {Q(1, 2), R(2)},
     na \in {"", "a", "ab"}, nb \in {"", "bbbb"},
     bt \in {"NONE", "SINGLE", "DOUBLE"}, nx \in {"x"}}

\* drawOptions().annotationFontScale: the default, and a large one
NoteFontScales == {Q(1, 2), R(4)}

\* a new drawer, and the molecule and annotation font scale of the draw
InitNotes ==
  /\ \E sz \in DrawerSizes : InitDrawer(MolDraw2D(sz[1], sz[2], sz[3], sz[4]))
  /\ pc = "idle"
  /\ batch \in [mol : NoteMols, annotationFontScale : NoteFontScales]
  /\ call = NoCall
  /\ prims = <<>>
  /\ sdm = NoProbe

\* setupDrawMolecule up to extractAtomSymbols
SetupNotes ==
  /\ pc = "idle" /\ activeMolIdx_ < 0
  /\ Done(extractAtomSymbols(
            extractAtomCoords(pushDrawDetails(Work(St)), batch.mol),
            batch.mol),
          "setup", <<>>)
  /\ pc' = "symbols"
  /\ UNCHANGED batch

ExtractAtomNotes ==
  /\ pc = "symbols"
  /\ Done(extractAtomNotes(Work(St), batch.mol, batch.annotationFontScale),
          "extractAtomNotes", <<>>)
  /\ pc' = "atom_notes"
  /\ UNCHANGED batch

ExtractBondNotes ==
  /\ pc = "atom_notes"
  /\ Done(extractBondNotes(Work(St), batch.mol, batch.annotationFontScale),
          "extractBondNotes", <<>>)
  /\ pc' = "bond_notes"
  /\ UNCHANGED batch

NextNotes == SetupNotes \/ ExtractAtomNotes \/ ExtractBondNotes

SpecNotes == InitNotes /\ [][NextNotes]_vars

----------------------------------------------------------------------------
(* The note of a molecule: extractMolNotes on a prepared context           *)

RECURSIVE sumPoints(_, _)
sumPoints(pts, i) ==
  IF i > Len(pts) THEN Origin ELSE VAdd(pts[i], sumPoints(pts, i + 1))

\* the corner the molecule note is placed towards: a corner of the atom
\* bounding box that is furthest from the centroid
noteCorner_furthest(pts, centroid) ==
  LET xs == {pts[i][1] : i \in DOMAIN pts}
      ys == {pts[i][2] : i \in DOMAIN pts}
      lo(s) == CHOOSE v \in s : \A u \in s : ~RLt(u, v)
      hi(s) == CHOOSE v \in s : \A u \in s : ~RLt(v, u)
      corners == {<<x, y>> : x \in {lo(xs), hi(xs)}, y \in {lo(ys), hi(ys)}}
      d2(c) == Dot(VSub(c, centroid), VSub(c, centroid))
  IN  CHOOSE c \in corners : \A e \in corners : ~RLt(d2(c), d2(e))

\* maxPt of calcAnnotationPosition(const ROMol &, AnnotationType &)
noteCorner(pts, centroid) ==
  LET hi(s) == CHOOSE v \in s : \A u \in s : ~RLt(v, u)
  IN  <<hi({pts[i][1] : i \in DOMAIN pts} \cup {R(-100000)}),
        hi({pts[i][2] : i \in DOMAIN pts} \cup {R(-100000)})>>

\* MolDraw2D::calcAnnotationPosition(const ROMol &, AnnotationType &): the
\* rectangle of the note of the molecule
calcMolAnnotationPosition(w0, text0) ==
  The({(
      IF text = "" THEN [StringRect EXCEPT !.width = R(-1)]
      ELSE LET pts == w.at_cds_[Act(w)]
               centroid == VScale(sumPoints(pts, 1), Q(1, Len(pts)))
               vect == VSub(noteCorner(pts, centroid), centroid)
           IN  [StringRect EXCEPT
                  !.width = RMul(RMul(R(Len(text)), CharWidth),
                                 fontSize([w EXCEPT !.fontScale = R(1)])),
                  !.trans = VAdd(centroid, VScale(vect, Q(9, 10)))]) :
        w \in {w0}, text \in {text0}})

\* MolDraw2D::extractMolNotes
extractMolNotes(w, mol, includeChiralFlagLabel) ==
  LET note == IF mol.has_note THEN mol.mol_note
              ELSE IF includeChiralFlagLabel /\ mol.chiral_flag THEN "ABS"
              ELSE ""
      keep(rect) ==
        IF RLt(rect.width, R(0)) THEN Emit(w, "warning")
        ELSE [w EXCEPT !.annotations_[Act(w)] =
                         Append(@, rect @@ [text_ |-> note, align |-> "START",
                                            scaleText_ |-> FALSE])]
  IN  IF w.err # "ok" THEN w
      ELSE IF w.activeMolIdx_ < 0 \/ ~(Len(w.annotations_) > w.activeMolIdx_)
      THEN Raise(w, "precondition")
      ELSE IF note = "" THEN w
      ELSE keep(calcMolAnnotationPosition(w, note))

\* three-atom molecules without labels, with or without a molNote property
\* and a chiral flag
MolNoteMols ==
  {[conf |-> TRUE,
    atoms |-> <<AtomAt(Origin, "", "C", 6),
                AtomAt(<<R(b[1]), R(b[2])>>, "", "C", 6),
                AtomAt(<<R(c[1]), R(c[2])>>, "", "C", 6)>>,
    bonds |-> <<<<0, 1>>, <<1, 2>>>>,
    has_note |-> n[1], mol_note |-> n[2], chiral_flag |-> f] :
     b \in (0..2) \X (0..2),
     c \in {<<2, 2>>, <<2, 1>>, <<0, 2>>, <<1, 0>>},
     n \in {<<FALSE, "">>, <<TRUE, "">>, <<TRUE, "mn">>},
     f \in BOOLEAN}

\* a new drawer, and the molecule and the includeChiralFlagLabel option of
\* the draw
InitMolNote ==
  /\ \E sz \in DrawerSizes : InitDrawer(MolDraw2D(sz[1], sz[2], sz[3], sz[4]))
  /\ pc = "idle"
  /\ batch \in [mol : MolNoteMols, includeChiralFlagLabel : BOOLEAN]
  /\ call = NoCall
  /\ prims = <<>>
  /\ sdm = NoProbe

\* setupDrawMolecule up to extractBrackets
SetupMolNote ==
  /\ pc = "idle" /\ activeMolIdx_ < 0
  /\ Done(setupBody(pushDrawDetails(Work(St)), batch.mol), "setup", <<>>)
  /\ pc' = "shapes"
  /\ UNCHANGED batch

ExtractMolNotes ==
  /\ pc = "shapes"
  /\ Done(extractMolNotes(Work(St), batch.mol, batch.includeChiralFlagLabel),
          "extractMolNotes", <<>>)
  /\ pc' = "mol_notes"
  /\ UNCHANGED batch

NextMolNote == SetupMolNote \/ ExtractMolNotes

SpecMolNote == InitMolNote /\ [][NextMolNote]_vars

----------------------------------------------------------------------------
(* Bond rendering: the primitives drawBond hands to the canvas, each with  *)
(* the line width, fill mode, dash pattern and active atom indices it is   *)
(* emitted under.  The atoms carry no labels and comicMode is off.         *)

noDash == <<>>
dots == <<R(2), R(6)>>
dashes == <<R(6), R(6)>>
shortDashes == <<R(2), R(2)>>

\* drawOptions().highlightBondWidthMultiplier
highlightBondWidthMultiplier == 8

\* the canvas state drawBond works on: drawOptions().bondLineWidth,
\* fill_polys_, the dash pattern, activeAtmIdx1_ and activeAtmIdx2_; out is
\* the primitives handed to the canvas
Pen(lw, fill, dash) ==
  [lw |-> lw, fill_polys_ |-> fill, dash |-> dash,
   activeAtmIdx1_ |-> -1, activeAtmIdx2_ |-> -1, out |-> <<>>]

setActiveAtmIdx(g, at_idx1, at_idx2) ==
  [g EXCEPT !.activeAtmIdx1_ = at_idx1, !.activeAtmIdx2_ = at_idx2]
setDash(g, pattern) == [g EXCEPT !.dash = pattern]
setFillPolys(g, val) == [g EXCEPT !.fill_polys_ = val]
setLineWidth(g, width) == [g EXCEPT !.lw = width]

\* a primitive handed to the canvas under the current state
drawPrimitive(g0, kind, pts0) ==
  The({[g EXCEPT !.out = Append(@, [kind |-> kind, pts |-> pts, lw |-> g.lw,
                                    fill |-> g.fill_polys_, dash |-> g.dash,
                                    a1 |-> g.activeAtmIdx1_,
                                    a2 |-> g.activeAtmIdx2_])] :
         g \in {g0}, pts \in {pts0}})

MidPoint(p, q) == VScale(VAdd(p, q), Q(1, 2))

\* MolDraw2D::drawLine(cds1, cds2, col1, col2): two half lines when the
\* colours differ
drawLine(g, cds1_in, cds2_in, col1, col2) ==
  The({(
      IF col1 = col2 THEN drawPrimitive(g, "line", <<cds1, cds2>>)
      ELSE drawPrimitive(
             drawPrimitive(g, "line", <<cds1, MidPoint(cds1, cds2)>>),
             "line", <<MidPoint(cds1, cds2), cds2>>)) :
        cds1 \in {cds1_in}, cds2 \in {cds2_in}})

\* the two halves drawBondLine draws when bonds are split
splitBondLine(g, bond, cds1_in, cds2_in, clearAIdx) ==
  The({(
      LET g1 == setActiveAtmIdx(g, bond.idx1, -1)
          g2 == drawPrimitive(g1, "line", <<cds1, MidPoint(cds1, cds2)>>)
          g3 == setActiveAtmIdx(g2, bond.idx2, -1)
          g4 == drawPrimitive(g3, "line", <<MidPoint(cds1, cds2), cds2>>)
      IN  IF clearAIdx THEN setActiveAtmIdx(g4, -1, -1) ELSE g4) :
        cds1 \in {cds1_in}, cds2 \in {cds2_in}})

\* drawBondLine(d2d, bond, cds1, cds2, col1, col2, clearAIdx)
drawBondLine(g, splitBonds, bond, cds1, cds2, col1, col2, clearAIdx) ==
  IF ~splitBonds
  THEN LET g1 == drawLine(setActiveAtmIdx(g, bond.idx1, bond.idx2),
                          cds1, cds2, col1, col2)
       IN  IF clearAIdx THEN setActiveAtmIdx(g1, -1, -1) ELSE g1
  ELSE splitBondLine(g, bond, cds1, cds2, clearAIdx)

\* drawBondLine(d2d, bond, cds1, cds2, clearAIdx), in the current colour
drawBondLinePlain(g, splitBonds, bond, cds1, cds2, clearAIdx) ==
  IF ~splitBonds
  THEN LET g1 == drawPrimitive(g, "line", <<cds1, cds2>>)
       IN  IF clearAIdx THEN setActiveAtmIdx(g1, -1, -1) ELSE g1
  ELSE splitBondLine(g, bond, cds1, cds2, clearAIdx)

\* drawBondWavyLine; MolDraw2D::drawWavyLine draws the line of drawLine
drawBondWavyLine(g, bond, cds1, cds2, col1, col2) ==
  setActiveAtmIdx(
    drawLine(setActiveAtmIdx(g, bond.idx1, bond.idx2), cds1, cds2, col1, col2),
    -1, -1)

\* the number of dashes of a dashed wedge
wedgeDashes(scale, cds1, cds2) ==
  LET factor == RMul(scale, Dot(VSub(cds1, cds2), VSub(cds1, cds2)))
  IN  IF RLt(factor, R(20)) THEN 3
      ELSE IF RLt(factor, R(30)) THEN 4
      ELSE IF RLt(factor, R(45)) THEN 5
      ELSE 6

RECURSIVE wedgeDashLoop(_, _, _, _, _, _, _, _)
\* the loop of drawWedgedBond over the dashes
wedgeDashLoop(g0, splitBonds, second, cds1, e1, e2, nDashes, i) ==
  IF i >= nDashes + 1 THEN g0
  ELSE The({wedgeDashLoop(g, splitBonds, second, cds1, e1, e2, nDashes,
                          i + 1) :
              g \in {drawPrimitive(
                       IF (nDashes \div 2 + 1) = i /\ splitBonds
                       THEN setActiveAtmIdx(g0, second, -1) ELSE g0,
                       "line", <<VAdd(cds1, VScale(e1, Q(i, nDashes))),
                                 VAdd(cds1, VScale(e2, Q(i, nDashes)))>>)}})

\* drawWedgedBond with the canvas state
drawWedgedBondPrims(g, scale, splitBonds, bond, inverted, cds1_in, cds2_in, draw_dashed, col1, col2) ==
  LET first == IF inverted THEN bond.idx2 ELSE bond.idx1
      second == IF inverted THEN bond.idx1 ELSE bond.idx2
      dashed(h, cds1, e1, e2, nDashes) ==
        setLineWidth(
          wedgeDashLoop(
            IF splitBonds
            THEN setActiveAtmIdx(setLineWidth(setFillPolys(h, FALSE), 1),
                                 first, -1)
            ELSE setLineWidth(setFillPolys(h, FALSE), 1),
            splitBonds, second, cds1, e1, e2, nDashes, 1),
          h.lw)
      halves(h, mid1, mid2, end1, end2) ==
        drawPrimitive(
          drawPrimitive(
            IF splitBonds THEN setActiveAtmIdx(h, second, -1) ELSE h,
            "polygon", <<mid1, end2, end1>>),
          "polygon", <<mid1, mid2, end2>>)
      solid(h, cds1, mid1, mid2, end1, end2) ==
        IF col1 = col2 /\ ~splitBonds
        THEN drawPrimitive(h, "polygon", <<cds1, end1, end2>>)
        ELSE halves(drawPrimitive(
                      IF splitBonds THEN setActiveAtmIdx(h, first, -1) ELSE h,
                      "polygon", <<cds1, mid1, mid2>>),
                    mid1, mid2, end1, end2)
      ends(g0, cds1, cds2, w0) ==
        The({(
            IF draw_dashed
            THEN dashed(g0, cds1, e1, e2, wedgeDashes(scale, cds1, cds2))
            ELSE solid(setFillPolys(g0, TRUE), cds1,
                       VAdd(cds1, VScale(e1, Q(1, 2))),
                       VAdd(cds1, VScale(e2, Q(1, 2))), w.end1, w.end2)) :
              w \in {w0}, e1 \in {VSub(w0.end1, cds1)},
              e2 \in {VSub(w0.end2, cds1)}})
  IN  The({setActiveAtmIdx(
             ends(g0, cds1, cds2,
                  drawWedgedBond(scale, inverted, cds1, cds2, draw_dashed)),
             -1, -1) :
             g0 \in {IF ~splitBonds THEN setActiveAtmIdx(g, first, second)
                     ELSE g},
             cds1 \in {cds1_in}, cds2 \in {cds2_in}})

\* MolDraw2D::drawArrow(arrowBegin, arrowEnd, asPolygon = true, frac, pi/6)
drawArrow(g0, arrowBegin0, arrowEnd0, frac) ==
  The({(
      LET cos_angle == Q(866, 1000)
          sin_angle == Q(1, 2)
          p1 == VAdd(arrowEnd,
                     VScale(<<RAdd(RMul(delta[1], cos_angle),
                                   RMul(delta[2], sin_angle)),
                              RSub(RMul(delta[2], cos_angle),
                                   RMul(delta[1], sin_angle))>>, frac))
          p2 == VAdd(arrowEnd,
                     VScale(<<RSub(RMul(delta[1], cos_angle),
                                   RMul(delta[2], sin_angle)),
                              RAdd(RMul(delta[2], cos_angle),
                                   RMul(delta[1], sin_angle))>>, frac))
      IN  setFillPolys(
            drawPrimitive(
              setFillPolys(drawPrimitive(g, "line", <<arrowBegin, arrowEnd>>),
                           TRUE),
              "polygon", <<p1, arrowEnd, p2>>),
            g.fill_polys_)) :
        g \in {g0}, arrowBegin \in {arrowBegin0}, arrowEnd \in {arrowEnd0},
        delta \in {VSub(arrowBegin0, arrowEnd0)}})

\* drawDativeBond
drawDativeBond(g, splitBonds, bond, cds1, cds2, col1, col2) ==
  The({(
      LET g1 == drawLine(IF ~splitBonds
                         THEN setActiveAtmIdx(g, bond.idx1, bond.idx2)
                         ELSE setActiveAtmIdx(g, bond.idx1, -1),
                         cds1, mid, col1, col1)
          g2 == IF splitBonds THEN setActiveAtmIdx(g1, bond.idx2, -1) ELSE g1
      IN  setActiveAtmIdx(
            drawArrow(g2, mid, VAdd(cds2, VScale(VSub(mid, cds2), Q(2, 10))),
                      Q(2, 10)),
            -1, -1)) :
        mid \in {MidPoint(cds1, cds2)}})

\* calcTripleBondLines
calcTripleBondLines(offset, bond, at1_cds, at2_cds) ==
  LET perp == VScale(calcPerpendicular(at1_cds, at2_cds), RMul(R(2), offset))
      bv == VSub(at1_cds, at2_cds)
      t1 == VScale(bv, IF Degree(bond.at1) = 1 THEN R(0) ELSE Q(15, 100))
      t2 == VScale(bv, IF Degree(bond.at2) = 1 THEN R(0) ELSE Q(15, 100))
  IN  [l1s |-> VAdd(VSub(at1_cds, t1), perp),
       l1f |-> VAdd(VAdd(at2_cds, t2), perp),
       l2s |-> VSub(VSub(at1_cds, t1), perp),
       l2f |-> VSub(VAdd(at2_cds, t2), perp)]

\* drawNormalBond with the canvas state; drawOptions().scaleBondWidth is
\* restored by every branch and singleColourWedgeBonds is off
drawNormalBondPrims(g, scale, splitBonds, bond, at1_cds, at2_cds, col1, col2, double_bond_offset) ==
  LET line(h, s, f, c1, c2) ==
        drawBondLine(h, splitBonds, bond, s, f, c1, c2, TRUE)
      double(l0) ==
        The({(
            LET g1 == line(g, l.l1s, l.l1f, col1, col2)
                g2 == IF bond.type = "AROMATIC" THEN setDash(g1, dashes)
                      ELSE g1
                g3 == line(g2, l.l2s, l.l2f, col1, col2)
            IN  IF bond.type = "AROMATIC" THEN setDash(g3, noDash) ELSE g3) :
              l \in {l0}})
      triple(l0) ==
        The({line(line(line(g, at1_cds, at2_cds, col1, col2),
                       l.l1s, l.l1f, col1, col2),
                  l.l2s, l.l2f, col1, col2) : l \in {l0}})
  IN  IF bond.type \in {"DOUBLE", "AROMATIC"}
      THEN double(calcDoubleBondLines(double_bond_offset, bond, at1_cds,
                                      at2_cds))
      ELSE IF bond.type = "SINGLE" /\ bond.dir \in {"BEGINWEDGE", "BEGINDASH"}
      THEN IF wedgeInverted(bond)
           THEN drawWedgedBondPrims(g, scale, splitBonds, bond, TRUE, at2_cds,
                                    at1_cds, bond.dir = "BEGINDASH", col2,
                                    col1)
           ELSE drawWedgedBondPrims(g, scale, splitBonds, bond, FALSE,
                                    at1_cds, at2_cds, bond.dir = "BEGINDASH",
                                    col1, col2)
      ELSE IF bond.type = "SINGLE" /\ bond.dir = "UNKNOWN"
      THEN drawBondWavyLine(g, bond, at1_cds, at2_cds, col1, col2)
      ELSE IF bond.type \in {"DATIVE", "DATIVEL", "DATIVER"}
      THEN drawDativeBond(g, splitBonds, bond, at1_cds, at2_cds, col1, col2)
      ELSE IF bond.type = "ZERO"
      THEN setDash(line(setDash(g, shortDashes), at1_cds, at2_cds, col1,
                        col2), noDash)
      ELSE IF bond.type = "HYDROGEN"
      THEN setDash(line(setDash(g, dots), at1_cds, at2_cds, "grey", "grey"),
                   noDash)
      ELSE IF bond.type = "TRIPLE"
      THEN triple(calcTripleBondLines(double_bond_offset, bond, at1_cds,
                                      at2_cds))
      ELSE line(g, at1_cds, at2_cds, col1, col2)

\* the glyph drawQueryBond adds to an order-and-ring-membership query: a
\* hexagon for a ring bond, two circles for a chain bond
ringGlyph(g0, at1_cds, at2_cds, negated) ==
  LET turn(v) == <<RSub(RMul(Q(1, 2), v[1]), RMul(Q(866, 1000), v[2])),
                   RAdd(RMul(Q(866, 1000), v[1]), RMul(Q(1, 2), v[2]))>>
      hexagon(h, midp, s0) ==
        The({drawPrimitive(h, "polygon",
                           <<VAdd(midp, s), VAdd(midp, s1), VAdd(midp, s2),
                             VSub(midp, s), VSub(midp, s1), VSub(midp, s2),
                             VAdd(midp, s)>>) :
               s \in {s0}, s1 \in {turn(s0)}, s2 \in {turn(turn(s0))}})
      circles(h, midp, s0) ==
        The({drawPrimitive(
               drawPrimitive(h, "ellipse",
                             <<VAdd(VAdd(midp, s), <<l, l>>),
                               VSub(VAdd(midp, s), <<l, l>>)>>),
               "ellipse", <<VAdd(VSub(midp, s), <<l, l>>),
                            VSub(VSub(midp, s), <<l, l>>)>>) :
               s \in {s0}, l \in {Length(s0, Origin)}})
  IN  The({setLineWidth(
             IF ~negated
             THEN hexagon(setLineWidth(setFillPolys(g, FALSE), 1), midp,
                          VScale(bv, RDiv(R(1), RMul(len, R(6)))))
             ELSE circles(setLineWidth(setFillPolys(g, FALSE), 1), midp,
                          VScale(bv, RDiv(R(1), RMul(len, R(10))))),
             g.lw) :
             g \in {g0}, midp \in {MidPoint(at1_cds, at2_cds)},
             bv \in {VSub(at2_cds, at1_cds)},
             len \in {Length(VSub(at2_cds, at1_cds), Origin)}})

drawQueryBond_third(g, scale, splitBonds, bond, at1_cds, at2_cds, double_bond_offset) ==
  LET p1 == VAdd(at1_cds, VScale(VSub(at2_cds, at1_cds), Q(1, 3)))
      l == calcDoubleBondLines(double_bond_offset, bond, p1, at2_cds)
      g1 == drawPrimitive(
              IF splitBonds THEN setActiveAtmIdx(g, bond.idx1, -1)
              ELSE setActiveAtmIdx(g, bond.idx1, bond.idx2),
              "line", <<at1_cds, p1>>)
      g2 == IF splitBonds THEN setActiveAtmIdx(g1, bond.idx2, -1) ELSE g1
  IN  setActiveAtmIdx(
        drawPrimitive(drawPrimitive(g2, "line", <<l.l1s, l.l1f>>),
                      "line", <<l.l2s, l.l2f>>),
        -1, -1)

\* drawQueryBond
drawQueryBond(g, scale, splitBonds, bond, at1_cds, at2_cds, double_bond_offset) ==
  LET qry == bond.query
      tdash == IF RLt(scale, R(10))
               THEN <<RDiv(shortDashes[1], R(4)), RDiv(shortDashes[2], R(3))>>
               ELSE IF RLt(scale, R(20))
               THEN <<RDiv(shortDashes[1], R(2)),
                      RDiv(shortDashes[2], Q(3, 2))>>
               ELSE shortDashes
      begin(h) == IF splitBonds THEN setActiveAtmIdx(h, bond.idx1, -1) ELSE h
      end(h) == IF splitBonds THEN setActiveAtmIdx(h, bond.idx2, -1) ELSE h
      solidPair(h, l0) ==
        The({drawPrimitive(drawPrimitive(h, "line", <<l.l1s, l.l1f>>),
                           "line", <<l.l2s, l.l2f>>) : l \in {l0}})
      dashedPair(h, l0) ==
        The({setDash(
               drawPrimitive(
                 setDash(drawPrimitive(h, "line", <<l.l1s, l.l1f>>), tdash),
                 "line", <<l.l2s, l.l2f>>),
               noDash) : l \in {l0}})
      firstHalf(midp) ==
        calcDoubleBondLines(double_bond_offset, bond, at1_cds, midp)
      secondHalf(midp) ==
        calcDoubleBondLines(double_bond_offset, bond, midp, at2_cds)
      generic(g0) ==
        setDash(drawBondLinePlain(setDash(g0, dots), splitBonds, bond,
                                  at1_cds, at2_cds, TRUE),
                noDash)
      q1 == IF qry.children[2].descr = "BondOrder" THEN qry.children[2]
            ELSE qry.children[1]
      q2 == IF qry.children[2].descr = "BondOrder" THEN qry.children[1]
            ELSE qry.children[2]
      drawn(g0, midp) ==
        IF qry.descr = "SingleOrDoubleBond"
        THEN solidPair(end(drawPrimitive(begin(g0), "line",
                                         <<at1_cds, midp>>)),
                       secondHalf(midp))
        ELSE IF qry.descr = "SingleOrAromaticBond"
        THEN dashedPair(end(drawPrimitive(begin(g0), "line",
                                          <<at1_cds, midp>>)),
                        secondHalf(midp))
        ELSE IF qry.descr = "DoubleOrAromaticBond"
        THEN dashedPair(end(solidPair(begin(g0), firstHalf(midp))),
                        secondHalf(midp))
        ELSE IF qry.descr = "BondNull"
        THEN setDash(drawBondLinePlain(setDash(g0, tdash), splitBonds, bond,
                                       at1_cds, at2_cds, TRUE),
                     noDash)
        ELSE IF qry.descr = "BondAnd" /\ Len(qry.children) = 2
        THEN IF q1.descr = "BondOrder" /\ q2.descr = "BondInRing"
             THEN ringGlyph(
                    drawNormalBondPrims(g0, scale, splitBonds, bond, at1_cds,
                                        at2_cds, "query", "query",
                                        double_bond_offset),
                    at1_cds, at2_cds, q2.negated)
             ELSE generic(g0)
        ELSE generic(g0)
  IN  The({setActiveAtmIdx(drawn(g0, midp), -1, -1) :
             g0 \in {IF ~splitBonds
                     THEN setActiveAtmIdx(g, bond.idx1, bond.idx2) ELSE g},
             midp \in {MidPoint(at1_cds, at2_cds)}})

\* MolDraw2D::getHighlightBondWidth without line-width multipliers, with
\* drawOptions().fillHighlights on
getHighlightBondWidth(g) == g.lw * highlightBondWidthMultiplier

\* MolDraw2D::drawBond with the canvas state
drawBondPrims(g_in, scale, opts, bond, highlight_bond) ==
  LET col1 == IF highlight_bond THEN "highlight" ELSE bond.col1
      col2 == IF highlight_bond THEN "highlight" ELSE bond.col2
      isComplex ==
        /\ bond.query.has
        /\ bond.query.negated \/ bond.query.descr # "BondOrder"
      drawn(g1, at1_cds, at2_cds, double_bond_offset) ==
        IF isComplex
        THEN drawQueryBond(g1, scale, opts.splitBonds, bond, at1_cds,
                           at2_cds, double_bond_offset)
        ELSE drawNormalBondPrims(g1, scale, opts.splitBonds, bond,
                                 at1_cds, at2_cds, col1, col2,
                                 double_bond_offset)
      restore(g, g2) == IF highlight_bond THEN setLineWidth(g2, g.lw) ELSE g2
  IN  The({restore(g, drawn(g1, at1_cds, at2_cds, double_bond_offset)) :
             g \in {g_in},
             g1 \in {IF ~highlight_bond THEN g_in
                     ELSE IF opts.continuousHighlight
                     THEN setLineWidth(g_in, getHighlightBondWidth(g_in))
                     ELSE setLineWidth(g_in,
                                       getHighlightBondWidth(g_in) \div 4)},
             at1_cds \in {bond.at1.pos}, at2_cds \in {bond.at2.pos},
             double_bond_offset \in
               {IF RLt(Dot(VSub(bond.at1.pos, bond.at2.pos),
                           VSub(bond.at1.pos, bond.at2.pos)), Q(14, 10))
                THEN RMul(multipleBondOffset, Q(6, 10))
                ELSE multipleBondOffset}})

NoQuery == [has |-> FALSE, descr |-> "", negated |-> FALSE, children |-> <<>>]
Query(descr, negated, children) ==
  [has |-> TRUE, descr |-> descr, negated |-> negated, children |-> children]
Child(descr, negated) == [descr |-> descr, negated |-> negated]

\* the queries a bond is drawn with
Queries ==
  {Query(d, n, <<>>) :
     d \in {"SingleOrDoubleBond", "SingleOrAromaticBond",
            "DoubleOrAromaticBond", "BondNull", "BondOrder", "BondOr"},
     n \in BOOLEAN}
  \cup {Query("BondAnd", n, c) :
          n \in BOOLEAN,
          c \in {<<Child("BondOrder", FALSE), Child("BondInRing", FALSE)>>,
                 <<Child("BondInRing", TRUE), Child("BondOrder", FALSE)>>,
                 <<Child("BondOrder", FALSE), Child("BondOrder", FALSE)>>,
                 <<Child("BondOrder", FALSE), Child("BondInRing", FALSE),
                   Child("BondOrder", FALSE)>>}}

\* the bonds drawn: atom 0 at the origin, atom 1 at distance 1 or 4
RenderBond(type, dir, tag, nbr, pos, col2, query) ==
  [type |-> type, dir |-> dir, stereo |-> "STEREONONE", inRing |-> FALSE,
   idx1 |-> 0, idx2 |-> 1, col1 |-> "C", col2 |-> col2, query |-> query,
   at1 |-> [pos |-> Origin, tag |-> tag, nbr |-> nbr],
   at2 |-> [pos |-> pos, tag |-> "CHI_UNSPECIFIED", nbr |-> NoNbr]]

RenderBonds ==
  {RenderBond(t, "NONE", "CHI_UNSPECIFIED", n, p, c, NoQuery) :
     t \in {"SINGLE", "DOUBLE", "AROMATIC", "TRIPLE", "ZERO", "HYDROGEN",
            "DATIVE"},
     n \in {NoNbr, Nbr(-3, 4, "SINGLE")},
     p \in {<<R(4), R(0)>>, <<R(1), R(0)>>}, c \in {"C", "O"}}
  \cup {RenderBond("SINGLE", d, t, NoNbr, p, c, NoQuery) :
          d \in {"BEGINWEDGE", "BEGINDASH", "UNKNOWN"},
          t \in {"CHI_UNSPECIFIED", "CHI_TETRAHEDRAL_CW"},
          p \in {<<R(4), R(0)>>, <<R(1), R(0)>>}, c \in {"C", "O"}}
  \cup {RenderBond("SINGLE", "NONE", "CHI_UNSPECIFIED", n, p, "C", q) :
          n \in {NoNbr, Nbr(-3, 4, "SINGLE")},
          p \in {<<R(4), R(0)>>}, q \in Queries}

RenderScales == {R(15), R(30), R(50)}

\* a drawer about to draw one bond of its active context: its scale, its
\* options and the canvas state left by the constructor or by the bond
\* drawn before (fill_polys_ is left off by a dashed wedge)
InitRender ==
  /\ \E sz \in DrawerSizes, sc \in RenderScales :
       InitDrawer([pushDrawDetails(MolDraw2D(sz[1], sz[2], sz[3], sz[4]))
                     EXCEPT !.scale_ = sc])
  /\ pc = "idle"
  /\ batch \in [pen : {Pen(lineWidth, f, noDash) : f \in BOOLEAN},
                opts : [splitBonds : BOOLEAN, continuousHighlight : BOOLEAN]]
  /\ call = NoCall
  /\ prims = <<>>
  /\ sdm = NoProbe

RenderBondStep(bond, highlight_bond) ==
  /\ pc = "idle" /\ call.op = "none"
  /\ \E g \in {drawBondPrims(batch.pen, scale_, batch.opts, bond,
                             highlight_bond)} :
       /\ batch' = [batch EXCEPT !.pen = [g EXCEPT !.out = <<>>]]
       /\ prims' = g.out
  /\ call' = [op |-> "drawBond", args |-> <<bond, highlight_bond>>,
              outcome |-> "ok", pre |-> St, pre_batch |-> batch]
  /\ DrawerUnchanged
  /\ UNCHANGED <<pc, sdm>>

NextRender ==
  \E bond \in RenderBonds, highlight_bond \in BOOLEAN :
    RenderBondStep(bond, highlight_bond)

SpecRender == InitRender /\ [][NextRender]_vars

----------------------------------------------------------------------------
(* The order of the primitives of one drawMolecule call, with and without  *)
(* continuous highlighting, on molecules with and without pre-draw shapes  *)

\* ethanol whose second bond is a variable-attachment bond with the end
\* points 1 and 2 (_MolFileBondEndPts "(2 1 2)")
VarEthanol == Ethanol @@ [endpts |-> <<1, 2>>, var_bond |-> 2]

OrderMols == {Ethane, Ethanol, VarEthanol, ShortBonds}

OrderRequests ==
  {[hl |-> h, opts |-> [DefaultOptions EXCEPT !.continuousHighlight = c]] :
     h \in {NoHighlights, [given |-> TRUE, atoms |-> {0, 1}],
            [given |-> TRUE, atoms |-> {1}]},
     c \in BOOLEAN}

NextOrder ==
  \E mol \in OrderMols, rq \in OrderRequests, ub \in UBOutcomes :
    DrawMolecule(mol, rq, ub)

SpecOrder == Init /\ [][NextOrder]_vars

----------------------------------------------------------------------------
(* adjustLineEndForHighlight: the end p2 of a highlight stroke from p1 is  *)
(* moved to the highlight ellipse of its atom                              *)

\* sqrt, to two decimals
Sqrt(q0) ==
  The({Q(ISqrt((q[1] * 10000) \div q[2], 0, 40000), 100) : q \in {q0}})

\* MolDraw2D::adjustLineEndForHighlight; ell is the ellipse calcLabelEllipse
\* gives for the atom, the result is p2 as the call leaves it
adjustLineEndForHighlight(ell, p1_in, p2_in) ==
  LET p1 == VSub(p1_in, ell.centre)
      p2 == VSub(p2_in, ell.centre)
      a2 == RMul(ell.xradius, ell.xradius)
      b2 == RMul(ell.yradius, ell.yradius)
      dx == RSub(p2[1], p1[1])
      dy == RSub(p2[2], p1[2])
      A == RAdd(RDiv(RMul(dx, dx), a2), RDiv(RMul(dy, dy), b2))
      B == RAdd(RDiv(RMul(R(2), RMul(p1[1], dx)), a2),
                RDiv(RMul(R(2), RMul(p1[2], dy)), b2))
      C == RSub(RAdd(RDiv(RMul(p1[1], p1[1]), a2),
                     RDiv(RMul(p1[2], p1[2]), b2)), R(1))
      t_to_point(t) ==
        <<RAdd(RAdd(p1[1], RMul(dx, t)), ell.centre[1]),
          RAdd(RAdd(p1[2], RMul(dy, t)), ell.centre[2])>>
      disc == RSub(RMul(B, B), RMul(R(4), RMul(A, C)))
      ok(t) == ~RLt(t, R(0)) /\ ~RLt(R(1), t)
      two(t1, t2) ==
        IF ok(t1) /\ ~ok(t2) THEN t_to_point(t1)
        ELSE IF ok(t2) /\ ~ok(t1) THEN t_to_point(t2)
        ELSE IF ok(t1) /\ ok(t2) THEN t_to_point(RMin(t1, t2))
        ELSE p2_in
      solve(disc_rt) ==
        two(RDiv(RAdd(RNeg(B), disc_rt), RMul(R(2), A)),
            RDiv(RSub(RNeg(B), disc_rt), RMul(R(2), A)))
  IN  IF RLt(ell.xradius, Q(1, 1000000)) \/ RLt(ell.yradius, Q(1, 1000000))
      THEN p2_in
      ELSE IF RLt(disc, R(0)) THEN p2_in
      ELSE IF RLt(RAbs(disc), Q(1, 1000000))
      THEN t_to_point(RDiv(RNeg(B), RMul(R(2), A)))
      ELSE solve(Sqrt(disc))

\* the highlight ellipses: circles of radius 1 about the origin and about
\* (1, 0), an ellipse about a label, and an ellipse of no height
Ellipses ==
  {[centre |-> c, xradius |-> R(r[1]), yradius |-> R(r[2])] :
     c \in {Origin, <<R(1), R(0)>>},
     r \in {<<1, 1>>, <<2, 1>>, <<1, 0>>}}

\* the two ends of a stroke: distinct points of a grid
StrokeEnds ==
  {<<R(x), R(y)>> : x \in {-3, -2, 0, 2, 3}, y \in {0, 1}}

InitAdjust ==
  /\ \E sz \in DrawerSizes :
       InitDrawer(pushDrawDetails(MolDraw2D(sz[1], sz[2], sz[3], sz[4])))
  /\ pc = "idle"
  /\ batch \in {b \in [ell : Ellipses, p1 : StrokeEnds, p2 : StrokeEnds] :
                  b.p1 # b.p2}
  /\ call = NoCall
  /\ prims = <<>>
  /\ sdm = NoProbe

AdjustLineEnd ==
  /\ pc = "idle" /\ call.op = "none"
  /\ call' = [op |-> "adjustLineEndForHighlight",
              args |-> <<batch.ell, batch.p1, batch.p2>>, outcome |-> "ok",
              res |-> adjustLineEndForHighlight(batch.ell, batch.p1,
                                                batch.p2)]
  /\ DrawerUnchanged
  /\ UNCHANGED <<pc, batch, prims, sdm>>

SpecAdjust == InitAdjust /\ [][AdjustLineEnd]_vars

----------------------------------------------------------------------------
(* Properties *)

DrawMoleculeOps == {"drawMolecule", "drawMoleculeLegend"}
SingleDrawOps == DrawMoleculeOps \cup {"drawMoleculeWithHighlights"}

\* C1: every drawMolecule call that returns leaves the depth of the
\* render-context stack (the active index and the outer length of each
\* per-molecule array) as it was before the call.
C1_DepthRestored ==
  (call.op \in DrawMoleculeOps /\ call.outcome = "ok")
    => /\ activeMolIdx_ = call.pre.activeMolIdx_
       /\ Depths(St) = Depths(call.pre)

\* C2: under a fixed scale state with scale # 0, getAtomCoords undoes
\* getDrawCoords on every point and getDrawCoords undoes getAtomCoords on
\* every device point.
C2_RoundTrip ==
  scale_ # R(0)
    => /\ call.op = "getDrawCoords"
            => getAtomCoords(St, call.res) = call.args[1]
       /\ call.op = "getAtomCoords"
            => getDrawCoords(St, call.res) = call.args[1]

\* C2 witness: a point has been mapped to the device under a scale state in
\* which every parameter is away from its neutral value.
C2_Witness ==
  /\ call.op = "getDrawCoords"
  /\ scale_ \notin {R(0), R(1)} /\ x_min_ # R(0) /\ y_min_ # R(0)
  /\ x_trans_ # R(0) /\ y_trans_ # R(0)
  /\ x_offset_ # 0 /\ y_offset_ # 0 /\ legend_height_ # 0
  /\ call.res # call.args[1]

ScaledX(p) == RMul(scale_, RAdd(RSub(p[1], x_min_), x_trans_))
ScaledY(p) == RMul(scale_, RAdd(RSub(p[2], y_min_), y_trans_))

\* C3 as stated: getDrawCoords(p) has x = scale*(p.x - x_min + x_trans) +
\* x_offset and y = (panelHeight - legendHeight - scale*(p.y - y_min +
\* y_trans)) - y_offset.
C3_OffsetSubtractedAfterFlip ==
  call.op = "getDrawCoords"
    => LET p == call.args[1]
       IN  /\ call.res[1] = RAdd(ScaledX(p), R(x_offset_))
           /\ call.res[2] =
                RSub(RSub(R(panel_height_ - legend_height_), ScaledY(p)),
                     R(y_offset_))

\* C3 amended: the vertical pixel offset is subtracted before the flip, so
\* y = (panelHeight - legendHeight - scale*(p.y - y_min + y_trans)) +
\* y_offset; x is as stated.
C3_OffsetSubtractedBeforeFlip ==
  call.op = "getDrawCoords"
    => LET p == call.args[1]
       IN  /\ call.res[1] = RAdd(ScaledX(p), R(x_offset_))
           /\ call.res[2] =
                RAdd(RSub(R(panel_height_ - legend_height_), ScaledY(p)),
                     R(y_offset_))

\* C3 witness: a point has been mapped to the device with a non-zero
\* vertical pixel offset and a legend.
C3_Witness ==
  /\ call.op = "getDrawCoords"
  /\ y_offset_ # 0 /\ legend_height_ # 0 /\ scale_ # R(0)
  /\ call.args[1][2] # R(0)

\* C4: at the end of every extraction pass the active context's coordinate,
\* atomic-number and symbol arrays all have one entry per atom of the
\* molecule, also when the pass runs again on the same context.
C4_OneEntryPerAtom ==
  (call.op = "extractPass" /\ call.outcome = "ok")
    => LET n == NumAtoms(call.args[1])
           a == activeMolIdx_ + 1
       IN  /\ Len(at_cds_[a]) = n
           /\ Len(atomic_nums_[a]) = n
           /\ Len(atom_syms_[a]) = n

RenderPrims == {"highlight", "bond", "label", "annotation"}
Emitted(kinds) == \E k \in 1..Len(prims) : prims[k] \in kinds

\* C5: a draw call on a molecule whose prepared copy has no conformer
\* returns without an error and emits no highlight, bond, atom-label or
\* annotation primitive.
C5_NoCoordsIsNoOp ==
  (call.op \in SingleDrawOps /\ ~call.args[1].conf)
    => /\ call.outcome = "ok"
       /\ ~Emitted(RenderPrims)

\* C6: setupDrawMolecule entered with needs_scale_ false or with an active
\* index other than 0 returns with scale_, the font scale, x_trans_,
\* y_trans_, x_offset_, y_offset_, x_min_ and y_min_ as on entry.
C6_ScaleStateKept ==
  (sdm.ran /\ sdm.returned /\ (~sdm.needs_scale \/ sdm.active # 0))
    => sdm.exit = sdm.entry

\* C7: pushDrawDetails appends one empty entry to each per-molecule array
\* and adds one to the active index; popDrawDetails removes the top entry
\* of each and subtracts one; lower contexts are untouched, and a push
\* followed by a pop gives back the stack it started from.
C7_PushPopFrame ==
  /\ call.op = "pushDrawDetails"
       => /\ activeMolIdx_ = call.pre.activeMolIdx_ + 1
          /\ \A k \in 1..7 : Stack(St)[k] = Append(Stack(call.pre)[k], <<>>)
  /\ call.op = "popDrawDetails"
       => /\ activeMolIdx_ = call.pre.activeMolIdx_ - 1
          /\ \A k \in 1..7 :
               /\ Len(Stack(St)[k]) = Len(Stack(call.pre)[k]) - 1
               /\ \A j \in 1..Len(Stack(St)[k]) :
                    Stack(St)[k][j] = Stack(call.pre)[k][j]
  /\ LET back == popDrawDetails(pushDrawDetails(Work(St)))
     IN  Stack(back) = Stack(St) /\ back.activeMolIdx_ = activeMolIdx_

\* C7 witness: a context has been pushed on top of a context that holds
\* extracted atoms.
C7_Witness ==
  /\ call.op = "pushDrawDetails"
  /\ activeMolIdx_ >= 1
  /\ at_cds_[activeMolIdx_] # <<>>

\* C8: every method that indexes the per-molecule arrays by the active
\* index fails with a precondition error, before it reads such an array,
\* when no context is active.
C8_PreconditionBeforeRead ==
  (call.op \in AccessorNames /\ call.pre.activeMolIdx_ < 0)
    => call.outcome = "precondition"

\* C9: processing a null entry of the molecule list, in the batch
\* calculateScale and in the drawing loop of drawMolecules, emits nothing
\* and leaves the context stack, scale_, the translation, the pixel offsets,
\* the metadata and the accumulated global bounds as they were.
C9_NullEntryNoEffect ==
  (call.op \in {"calculateScale.entry", "drawMolecules.entry"}
     /\ IsNull(call.args[2]))
    => /\ prims = <<>>
       /\ Stack(St) = Stack(call.pre)
       /\ activeMolIdx_ = call.pre.activeMolIdx_
       /\ scale_ = call.pre.scale_
       /\ x_trans_ = call.pre.x_trans_ /\ y_trans_ = call.pre.y_trans_
       /\ x_offset_ = call.pre.x_offset_ /\ y_offset_ = call.pre.y_offset_
       /\ d_numMetadataEntries = call.pre.d_numMetadataEntries
       /\ batch.global_x_min = call.pre_batch.global_x_min
       /\ batch.global_x_max = call.pre_batch.global_x_max
       /\ batch.global_y_min = call.pre_batch.global_y_min
       /\ batch.global_y_max = call.pre_batch.global_y_max

\* the bounding box the single-molecule scale computation gives molecule m
\* alone, for a width x height drawing area
MolBox(m, hl, width, height) ==
  LET boxOf(w) == [x_min |-> w.x_min_, y_min |-> w.y_min_,
                   x_max |-> RAdd(w.x_min_, w.x_range_),
                   y_max |-> RAdd(w.y_min_, w.y_range_)]
      d == pushDrawDetails(Work(MolDraw2D(width_, height_, panel_width_,
                                          panel_height_)))
  IN  boxOf(calculateScale(extractAtomSymbols(extractAtomCoords(d, m), m),
                           width, height, m, hl))

\* C10: whatever was drawn before, the batch calculateScale of drawMolecules
\* ends with the shared minimum and range equal to the minimum and maximum
\* over the bounding boxes of the non-null molecules of the list.
C10_SharedBoxIsUnion ==
  call.op = "calculateScale.end"
    => LET b == call.pre_batch
           boxes == {MolBox(b.mols[k], b.hl, b.width, b.height) :
                       k \in {j \in 1..Len(b.mols) : ~IsNull(b.mols[j])}}
       IN  /\ \A bx \in boxes :
                /\ ~RLt(bx.x_min, x_min_) /\ ~RLt(bx.y_min, y_min_)
                /\ ~RLt(RAdd(x_min_, x_range_), bx.x_max)
                /\ ~RLt(RAdd(y_min_, y_range_), bx.y_max)
           /\ \E bx \in boxes : bx.x_min = x_min_
           /\ \E bx \in boxes : bx.y_min = y_min_
           /\ \E bx \in boxes : bx.x_max = RAdd(x_min_, x_range_)
           /\ \E bx \in boxes : bx.y_max = RAdd(y_min_, y_range_)

\* the scale and translation the batch calculateScale derives from the
\* global bounds collected in b
SharedScale(d, b) ==
  LET shared(v) == <<v.scale_, v.x_trans_, v.y_trans_>>
  IN  shared(scaleFinish(Work(d), b))

\* C11: within one drawMolecules call the bonds of every non-null molecule
\* are drawn under the scale and translation the batch calculateScale set;
\* a per-molecule draw changes neither, only the pixel offsets.
C11_SharedScaleKept ==
  (call.op = "drawMolecules.entry" /\ ~IsNull(call.args[2])
     /\ call.outcome = "ok")
    => /\ "bonds" \in DOMAIN sdm
       /\ sdm.bonds = SharedScale(call.pre, call.pre_batch)
       /\ <<scale_, x_trans_, y_trans_>> = sdm.bonds
       /\ <<call.pre.scale_, call.pre.x_trans_, call.pre.y_trans_>> = sdm.bonds

\* C11 witness: the second molecule of a list has been drawn in a panel with
\* a pixel offset other than the first panel's.
C11_Witness ==
  /\ call.op = "drawMolecules.entry" /\ call.args[1] = 2
  /\ ~IsNull(call.args[2]) /\ call.outcome = "ok"
  /\ ~IsNull(call.pre_batch.mols[1])
  /\ x_offset_ # 0
  /\ "bonds" \in DOMAIN sdm

\* two values differ by less than the convergence tolerance of 0.1
WithinTolerance(a, b) == RLt(RAbs(RSub(a, b)), Q(1, 10))

\* C12: a call of calculateScale that follows a call with the same width,
\* height and molecule on the same unchanged context ends with scale_,
\* x_trans_ and y_trans_ within 0.1 of the values the earlier call ended
\* with, whatever the mean bond length of the molecule.
C12_ScaleIdempotent ==
  (call.op = "calculateScale.return" /\ batch.calls >= 2
     /\ batch.size = batch.prev_size)
    => /\ WithinTolerance(scale_, batch.prev_result[1])
       /\ WithinTolerance(x_trans_, batch.prev_result[2])
       /\ WithinTolerance(y_trans_, batch.prev_result[3])

\* C19: every pass through the loop of calculateScale leaves x_range_ and
\* y_range_ at least as large and the trial scale at most as large as before;
\* the loop is left exactly after the pass that changed the scale by less
\* than 0.1, or without a pass when the scale is at most 1e-4; and every call
\* that entered the loop returns.
C19_LoopTerminates ==
  /\ [](call.op = "calculateScale.iter"
          => /\ ~RLt(x_range_, call.pre.x_range_)
             /\ ~RLt(y_range_, call.pre.y_range_)
             /\ ~RLt(call.pre.scale_, scale_)
             /\ RLt(Q(1, 10000), call.pre.scale_)
             /\ (pc = "fitted")
                  <=> RLt(RAbs(RSub(scale_, call.pre.scale_)), Q(1, 10)))
  /\ ((pc = "fitting") ~> (pc = "idle"))

\* a pass that grew the box and lowered the scale, so that another pass
\* follows
C19_Witness ==
  /\ call.op = "calculateScale.iter" /\ pc = "fitting"
  /\ RLt(call.pre.x_range_, x_range_)
  /\ RLt(scale_, call.pre.scale_)

Cross(p, q) == RSub(RMul(p[1], q[2]), RMul(p[2], q[1]))

\* a double bond was drawn whose atoms both have degree > 1 and are not
\* linear
BranchedDoubleBondDrawn ==
  /\ call.op = "drawBond" /\ batch.type = "DOUBLE"
  /\ Degree(batch.at1) > 1 /\ Degree(batch.at2) > 1
  /\ ~isLinearAtom(batch.at1, batch.at2, batch.type)
  /\ ~isLinearAtom(batch.at2, batch.at1, batch.type)

\* the second line of the pair ln runs parallel to the first, at distance
\* dist from the line through the atoms, and starts and ends 15% of the
\* bond length inside the atoms
OffsetAndTruncated(ln, dist) ==
  LET a1 == batch.at1.pos
      a2 == batch.at2.pos
      len == Length(a1, a2)
      along == VScale(VSub(a2, a1), RDiv(R(1), len))
  IN  /\ Cross(VSub(ln.l1f, ln.l1s), VSub(ln.l2f, ln.l2s)) = R(0)
      /\ RAbs(Cross(VSub(ln.l2s, a1), along)) = dist
      /\ RAbs(Cross(VSub(ln.l2f, a1), along)) = dist
      /\ Dot(VSub(ln.l2s, a1), along) = RMul(Q(15, 100), len)
      /\ Dot(VSub(a2, ln.l2f), along) = RMul(Q(15, 100), len)

C14_WedgePointsAtStereocentre ==
  \A c \in {<<batch.at1, batch.at2>>, <<batch.at2, batch.at1>>} :
    (call.op = "drawBond" /\ batch.type = "SINGLE"
       /\ batch.dir \in {"BEGINWEDGE", "BEGINDASH"}
       /\ Tetrahedral(c[1]) /\ ~Tetrahedral(c[2]) /\ Degree(c[2]) = 1)
      => /\ call.res.apex = c[1].pos
         /\ VScale(VAdd(call.res.end1, call.res.end2), Q(1, 2)) = c[2].pos
         /\ call.res.end1 # call.res.end2

\* a wedge drawn from a stereocentre that is the end atom of its bond
C14_Witness ==
  /\ call.op = "drawBond" /\ batch.type = "SINGLE"
  /\ batch.dir = "BEGINWEDGE"
  /\ Tetrahedral(batch.at2) /\ ~Tetrahedral(batch.at1)
  /\ Degree(batch.at1) = 1
  /\ call.res.apex = batch.at2.pos

\* the notes the last extraction pass has placed: for each its text, the
\* atom its clash tests are made for, the drawer as it was when the note
\* was placed, and the candidate positions in the order they are tried
NoteCase(text, idx, cands) ==
  LET k == CHOOSE i \in 1..Len(annotations_[1]) :
             annotations_[1][i].text_ = text
      before == [Work(St) EXCEPT !.annotations_[1] = SubSeq(@, 1, k - 1)]
  IN  [text |-> text, idx |-> idx, kept |-> annotations_[1][k].trans,
       accepted |-> SubSeq(annotations_[1], 1, k - 1),
       cands |-> cands,
       scores |-> clashScores(before, cands, text, batch.annotationFontScale,
                              batch.mol, idx)]

NoteCases ==
  IF pc = "atom_notes"
  THEN {NoteCase(AtomNote(batch.mol, i), i,
                 atomNoteCandidates(Work(St), batch.mol, i)) :
          i \in {j \in 0..(NumAtoms(batch.mol) - 1) :
                   AtomNote(batch.mol, j) # ""}}
  ELSE IF pc = "bond_notes"
  THEN {NoteCase(BondNote(batch.mol, b), batch.mol.bonds[b][1],
                 bondNoteCandidates(Work(St), batch.mol, b)) :
          b \in {c \in 1..Len(batch.mol.bonds) : BondNote(batch.mol, c) # ""}}
  ELSE {}

ClashFree(c) == \E k \in 1..Len(c.cands) : c.scores[k] = 0
AllClash(c) == \A k \in 1..Len(c.cands) : c.scores[k] # 0

\* C15: the note of an atom that has a symbol is placed at distance 0.5 or
\* 0.75 from the atom (the second or third search radius, to within the
\* 0.01 the three-decimal cosines allow), never at 0.25, whether a
\* clash-free position was found or the fallback position is used.
C15_SymbolAtomNoteBeyondFirstRadius ==
  pc = "atom_notes" =>
    \A c \in NoteCases :
      atom_syms_[1][c.idx + 1][1] # "" =>
        LET d == VSub(c.kept, at_cds_[1][c.idx + 1])
            within(lo, hi) == /\ ~RLt(Dot(d, d), RMul(lo, lo))
                              /\ ~RLt(RMul(hi, hi), Dot(d, d))
        IN  \/ within(Q(49, 100), Q(51, 100))
            \/ within(Q(74, 100), Q(76, 100))

\* the note of an atom with a symbol, every candidate position of which
\* clashes, has been placed
C15_Witness ==
  /\ pc = "atom_notes"
  /\ \E c \in NoteCases :
       /\ atom_syms_[1][c.idx + 1][1] # ""
       /\ AllClash(c)
       /\ Len(c.cands) = 24

\* the severity of a clash score: a bond clash (1) is worse than an atom
\* label clash (2), which is worse than a clash with another note (3)
Severity(score) == 4 - score

\* C16: when some tried candidate position of an atom note or bond note is
\* clash-free, the position returned is the first candidate the clash test
\* reports no clash for, and the note's rectangle at that position does not
\* intersect the rectangle of any annotation accepted before it.
C16_FirstClashFreeAvoidsAccepted ==
  \A c \in NoteCases :
    ClashFree(c) =>
      /\ \E k \in 1..Len(c.cands) :
           /\ c.kept = c.cands[k] /\ c.scores[k] = 0
           /\ \A i \in 1..(k - 1) : c.scores[i] # 0
      /\ \A a \in 1..Len(c.accepted) :
           ~doesRectIntersect(
              noteRects(Work(St), c.text, batch.annotationFontScale),
              c.kept, c.accepted[a])

\* C17: when every tried candidate position of a note clashes, the
\* extraction pass emits a placement warning, adds the annotation at the
\* fallback position all the same, and raises no error.
C17_FallbackWarnsAndAdds ==
  \A c \in NoteCases :
    AllClash(c) =>
      /\ Emitted({"warning"})
      /\ \E k \in 1..Len(annotations_[1]) : annotations_[1][k].text_ = c.text
      /\ call.outcome = "ok"

\* C18: when no tried candidate position is clash-free, the position kept
\* is a tried candidate of the lowest clash severity among all tried
\* candidates.
C18_FallbackLeastSevere ==
  \A c \in NoteCases :
    AllClash(c) =>
      \E k \in 1..Len(c.cands) :
        /\ c.kept = c.cands[k]
        /\ \A i \in 1..Len(c.cands) :
             Severity(c.scores[k]) <= Severity(c.scores[i])

\* the list index (0-based) of the molecule the last step of the drawing
\* loop of drawMolecules has drawn
DrawnIndex == call.args[1] - 1
MoleculeDrawn ==
  /\ call.op = "drawMolecules.entry" /\ call.outcome = "ok"
  /\ ~IsNull(call.args[2])
GridCols == width_ \div panelWidth(St)
GridRows == height_ \div panelHeight(St)

\* C20: drawMolecules draws the molecule at list index i, null entries
\* counted, with pixel offset ((i mod nCols) * panelWidth,
\* (i div nCols) * panelHeight), nCols being width div panelWidth.
C20_RowMajorOffsets ==
  MoleculeDrawn =>
    /\ x_offset_ = (DrawnIndex % GridCols) * panelWidth(St)
    /\ y_offset_ = (DrawnIndex \div GridCols) * panelHeight(St)

\* C20 as amended: the column is i mod nCols only when there is more than
\* one column and the row is i div nCols only when there is more than one
\* row; otherwise the column, respectively the row, is 0.
C20_RowMajorOffsetsInGrid ==
  MoleculeDrawn =>
    /\ x_offset_ = (IF GridCols > 1 THEN DrawnIndex % GridCols ELSE 0)
                     * panelWidth(St)
    /\ y_offset_ = (IF GridRows > 1 THEN DrawnIndex \div GridCols ELSE 0)
                     * panelHeight(St)

\* the third molecule of a list drawn on a surface of one row of two
\* panels: it is drawn in the first panel
C20_Witness ==
  /\ MoleculeDrawn /\ DrawnIndex = 2
  /\ GridRows = 1 /\ GridCols = 2
  /\ x_offset_ = 0 /\ y_offset_ = 0

\* C21: every molecule drawMolecules draws has its panel inside the drawing
\* surface: 0 <= x_offset <= width - panelWidth and
\* 0 <= y_offset <= height - panelHeight.
C21_PanelInsideSurface ==
  MoleculeDrawn =>
    /\ 0 <= x_offset_ /\ x_offset_ <= width_ - panelWidth(St)
    /\ 0 <= y_offset_ /\ y_offset_ <= height_ - panelHeight(St)

\* the y coordinates of the atoms of the active context
AtomYs == {at_cds_[Act(St)][i][2] : i \in DOMAIN at_cds_[Act(St)]}

\* C22: when the bounding box of the atoms and shapes has a y span below
\* 1e-4, calculateScale replaces it by a span of exactly 1.0 centred on the
\* existing coordinate value.
C22_DegenerateSpanBecomesOne ==
  (/\ call.op = "calculateScale.begin"
   /\ pre_shapes_[Act(St)] = <<>> /\ post_shapes_[Act(St)] = <<>>
   /\ Cardinality(AtomYs) = 1) =>
    \A y \in AtomYs :
      y_range_ = R(1) /\ y_min_ = RSub(y, Q(1, 2))

\* the centre of the padded bounding box of the drawer
BoxCentre ==
  <<RAdd(x_min_, RMul(Q(1, 2), x_range_)),
    RAdd(y_min_, RMul(Q(1, 2), y_range_))>>

\* calculateScale(width, height, mol) has returned, and height is the panel
\* height less the legend height
ScaledToPanel ==
  /\ call.op = "calculateScale.return"
  /\ call.args[1][2] = drawHeight(St)

\* C23: after calculateScale(width, height, mol) with height the panel
\* height less the legend height, getDrawCoords maps the centre of the
\* padded bounding box to the exact centre of the width x height area
\* shifted by the pixel offsets, for odd widths too.
C23_CentreMapsToCentre ==
  ScaledToPanel =>
    getDrawCoords(St, BoxCentre) =
      <<RAdd(Q(call.args[1][1], 2), R(x_offset_)),
        RAdd(Q(call.args[1][2], 2), R(y_offset_))>>

\* the mean of the atom coordinates of the molecule being drawn
Centroid ==
  VScale(sumPoints(MapAtoms(batch.mol.atoms, "pos", 1), 1),
         Q(1, NumAtoms(batch.mol)))

\* the corners of the atom bounding box of the molecule being drawn
BoxCorners ==
  LET xs == {batch.mol.atoms[i].pos[1] : i \in DOMAIN batch.mol.atoms}
      ys == {batch.mol.atoms[i].pos[2] : i \in DOMAIN batch.mol.atoms}
  IN  {<<x, y>> : x \in {v \in xs : \A u \in xs : ~RLt(u, v)}
                        \cup {v \in xs : \A u \in xs : ~RLt(v, u)},
                  y \in {v \in ys : \A u \in ys : ~RLt(u, v)}
                        \cup {v \in ys : \A u \in ys : ~RLt(v, u)}}

Dist2(p, q) == Dot(VSub(p, q), VSub(p, q))

\* extractMolNotes has kept a note for the molecule
MolNoteKept ==
  /\ call.op = "extractMolNotes"
  /\ Len(annotations_[Act(St)]) = 1

\* C24: a molecule-level note is placed at centroid + 0.9 * (c - centroid),
\* c being the corner of the atom bounding box furthest from the centroid.
C24_NoteTowardsFurthestCorner ==
  MolNoteKept =>
    \E c \in BoxCorners :
      /\ \A e \in BoxCorners : ~RLt(Dist2(c, Centroid), Dist2(e, Centroid))
      /\ annotations_[Act(St)][1].trans =
           VAdd(Centroid, VScale(VSub(c, Centroid), Q(9, 10)))

\* C24, amended: a molecule-level note is placed at
\* centroid + 0.9 * (c - centroid), c being the corner of the atom bounding
\* box with the largest x and the largest y, whichever corner is furthest
\* from the centroid.
C24_NoteTowardsMaxCorner ==
  MolNoteKept =>
    \E c \in BoxCorners :
      /\ \A e \in BoxCorners : ~RLt(c[1], e[1]) /\ ~RLt(c[2], e[2])
      /\ annotations_[Act(St)][1].trans =
           VAdd(Centroid, VScale(VSub(c, Centroid), Q(9, 10)))

\* a note was kept for a molecule whose largest corner is not the corner
\* furthest from its centroid
C24_Witness ==
  /\ MolNoteKept
  /\ \E c, e \in BoxCorners :
       /\ \A g \in BoxCorners : ~RLt(c[1], g[1]) /\ ~RLt(c[2], g[2])
       /\ RLt(Dist2(c, Centroid), Dist2(e, Centroid))

\* drawBond has drawn the bond call.args[1]
BondDrawn == call.op = "drawBond"
DrawnBond == call.args[1]

\* the primitives are lines in the dash pattern that run, joined end to
\* end, from one atom of the drawn bond to the other
LineBetweenAtoms(pattern) ==
  /\ Len(prims) >= 1
  /\ \A k \in DOMAIN prims : prims[k].kind = "line" /\ prims[k].dash = pattern
  /\ prims[1].pts[1] = DrawnBond.at1.pos
  /\ prims[Len(prims)].pts[2] = DrawnBond.at2.pos
  /\ \A k \in 1..(Len(prims) - 1) : prims[k].pts[2] = prims[k + 1].pts[1]

\* the query is an AND of exactly an order constraint and a ring-membership
\* constraint
OrderAndRing(q) ==
  /\ q.descr = "BondAnd" /\ Len(q.children) = 2
  /\ {q.children[1].descr, q.children[2].descr} = {"BondOrder", "BondInRing"}

\* C25: every bond whose query is negated is drawn as a single dotted line
\* between its two atoms whatever the query's description, and so is every
\* non-negated query bond that is not single-or-double, single-or-aromatic,
\* double-or-aromatic or an AND of exactly an order constraint and a
\* ring-membership constraint (a bare order constraint is an ordinary bond).
C25_OtherQueriesDotted ==
  (/\ BondDrawn /\ DrawnBond.query.has
   /\ \/ DrawnBond.query.negated
      \/ /\ DrawnBond.query.descr \notin
              {"SingleOrDoubleBond", "SingleOrAromaticBond",
               "DoubleOrAromaticBond", "BondOrder"}
         /\ ~OrderAndRing(DrawnBond.query)) =>
    LineBetweenAtoms(dots)

\* how far along the drawn bond, from 0 at its begin atom to 1 at its end
\* atom, the point p lies
Along(p) ==
  LET bv == VSub(DrawnBond.at2.pos, DrawnBond.at1.pos)
  IN  RDiv(Dot(VSub(p, DrawnBond.at1.pos), bv), Dot(bv, bv))

\* the primitives are a plain line over the part of the bond from its begin
\* atom to the fraction f and a pair of lines over the rest of it
LineThenPair(f) ==
  /\ Len(prims) = 3
  /\ \A k \in 1..3 : prims[k].kind = "line" /\ prims[k].dash = noDash
  /\ prims[1].pts = <<DrawnBond.at1.pos,
                      VAdd(DrawnBond.at1.pos,
                           VScale(VSub(DrawnBond.at2.pos, DrawnBond.at1.pos),
                                  f))>>
  /\ \A k \in 2..3 : \A i \in 1..2 :
       ~RLt(Along(prims[k].pts[i]), f) /\ ~RLt(R(1), Along(prims[k].pts[i]))
  /\ \E k \in 2..3 : Along(prims[k].pts[1]) = f
  /\ \E k \in 2..3 : Along(prims[k].pts[2]) = R(1)

\* C26: a single-or-double query bond is drawn as one plain line segment
\* covering one third of the bond and a pair of double-bond lines covering
\* the remaining two thirds.
C26_ThirdThenTwoThirds ==
  (BondDrawn /\ DrawnBond.query.has
   /\ DrawnBond.query.descr = "SingleOrDoubleBond") =>
    LineThenPair(Q(1, 3))

\* C26, amended: a single-or-double query bond is drawn as one plain line
\* segment from the begin atom to the middle of the bond and a pair of
\* double-bond lines covering the other half of the bond.
C26_HalfThenHalf ==
  (BondDrawn /\ DrawnBond.query.has
   /\ DrawnBond.query.descr = "SingleOrDoubleBond") =>
    LineThenPair(Q(1, 2))

\* a single-or-double query bond whose begin atom has a further neighbour
\* was drawn
C26_Witness ==
  /\ BondDrawn /\ DrawnBond.query.has /\ ~DrawnBond.query.negated
  /\ DrawnBond.query.descr = "SingleOrDoubleBond"
  /\ HasNbr(DrawnBond.at1)
  /\ Len(prims) = 3

\* the mean of the points of a primitive
PrimCentre(pr) ==
  VScale(sumPoints(pr.pts, 1), Q(1, Len(pr.pts)))

\* C27: with split-bond rendering on, every line or polygon primitive of a
\* bond is emitted while exactly one active atom index is set, and that
\* index is the bond endpoint nearer to the primitive.
C27_SplitPrimitivesOwnedByNearerAtom ==
  (BondDrawn /\ call.pre_batch.opts.splitBonds) =>
    \A k \in DOMAIN prims :
      prims[k].kind \in {"line", "polygon"} =>
        /\ prims[k].a1 \in {DrawnBond.idx1, DrawnBond.idx2}
        /\ prims[k].a2 = -1
        /\ IF prims[k].a1 = DrawnBond.idx1
           THEN ~RLt(Q(1, 2), Along(PrimCentre(prims[k])))
           ELSE ~RLt(Along(PrimCentre(prims[k])), Q(1, 2))

\* C30: drawBond leaves the drawer's line width, fill-polygon mode and dash
\* pattern equal to their values before the call.
C30_PenRestored ==
  BondDrawn =>
    /\ batch.pen.lw = call.pre_batch.pen.lw
    /\ batch.pen.fill_polys_ = call.pre_batch.pen.fill_polys_
    /\ batch.pen.dash = call.pre_batch.pen.dash

\* every primitive of the kind `first` was emitted before every primitive of
\* the kind `then`
EmittedBefore(first, then) ==
  \A i, j \in DOMAIN prims :
    (prims[i] = first /\ prims[j] = then) => i < j

\* drawMolecule has drawn a molecule with continuous highlighting
ContinuousDraw ==
  /\ call.op = "drawMolecule" /\ call.outcome = "ok"
  /\ call.args[3].opts.continuousHighlight

\* C28: with continuous highlighting on, every highlight primitive of a
\* molecule is emitted after the pre-draw shapes and before the first plain
\* bond primitive, and the atom labels are emitted after all the bonds.
C28_HighlightsFirstLabelsLast ==
  ContinuousDraw =>
    /\ EmittedBefore("preshape", "highlight")
    /\ EmittedBefore("highlight", "bond")
    /\ EmittedBefore("bond", "label")

\* a molecule with pre-draw shapes, highlights, bonds and a label was drawn
\* with continuous highlighting
C28_Witness ==
  /\ ContinuousDraw
  /\ \A kind \in {"preshape", "highlight", "bond", "label"} :
       \E k \in DOMAIN prims : prims[k] = kind

\* adjustLineEndForHighlight has returned
LineEndAdjusted == call.op = "adjustLineEndForHighlight"

\* the parameter of the point p on the stroke, 0 at p1 and 1 at the p2 the
\* call was made with
StrokeParameter(p) ==
  LET d == VSub(call.args[3], call.args[2])
  IN  RDiv(Dot(VSub(p, call.args[2]), d), Dot(d, d))

\* C29: adjustLineEndForHighlight either leaves the stroke endpoint
\* unchanged or moves it to a point of the stroke whose parameter t lies in
\* [0,1], also in the one-root (tangent) case.
C29_EndStaysOnStroke ==
  LineEndAdjusted =>
    \/ call.res = call.args[3]
    \/ /\ ~RLt(StrokeParameter(call.res), R(0))
       /\ ~RLt(R(1), StrokeParameter(call.res))
====
